---- MODULE Spec2Model ----
(***************************************************************************)
(* Model of the projection pipeline of ProjectionRegistry:                 *)
(*   ProjectionProcessor.forward / backward   (projection/processor.py)    *)
(*   BaseProjectionConfig.update              (projection/base/config.py)  *)
(*   BaseGridGeneration / GnomonicGridGeneration                           *)
(*   GnomonicProjectionStrategy               (projection/gnomonic)        *)
(*   CoordinateTransformer and the per-family transformers                 *)
(*   BaseInterpolation.interpolate            (projection/base)            *)
(*                                                                         *)
(* Numbers are fixed point.  Planar coordinates are in 1/1000 of a unit,   *)
(* angles in 1/1000 of a degree, pixel coordinates (after the float32      *)
(* conversion of interpolate) in 1/1000 of a pixel.  Trigonometric values  *)
(* are tabulated on the values the bounded grids produce.                  *)
(***************************************************************************)
EXTENDS Integers, Sequences, FiniteSets, TLC

VARIABLES
    params,        \* BaseProjectionConfig.params: the dict shared with config_object
    extra_params,  \* BaseProjectionConfig.extra_params
    strategy,      \* the strategy object created by config.create_projection()
    pc,            \* position of the current forward/backward call
    dir,           \* "forward" or "backward": which method is running
    kw,            \* the keyword arguments of the current call
    img,           \* the image argument of the current call
    grid,          \* result of the grid stage: [a, b] (x/y grids or lon/lat grids)
    coords,        \* result of the projection stage: [a, b, mask]
    maps,          \* result of the coordinate-to-pixel stage: [map_x, map_y]
    interp,        \* result of the interpolation stage (before mask/flip)
    ran,           \* the stages the current call has entered, in order
    outcome,       \* "none", "image" or "error": how the last call ended
    err,           \* the exception the last call raised: [kind, cause]
    result,        \* the image the last call returned
    gcfg,          \* configuration of a stand-alone grid generator
    gret,          \* the last direct create_grid call and what it returned or raised
    gprev,         \* the direct create_grid call before that one
    gcalls,        \* number of times _create_grid ran on the stand-alone generator
    icall,         \* arguments of the last direct interpolate call
    iret,          \* what the last direct interpolate call returned or raised
    tcall,         \* arguments of the last direct transformer call
    tret,          \* what that call returned or raised
    scall,         \* arguments of the last direct strategy call
    sret,          \* what that strategy call returned or raised
    cobj,          \* a stand-alone configuration object (its field values), or none
    ccall,         \* the last construction or update of it and how it ended
    registry,      \* ProjectionRegistry._registry: name -> components
    rcall,         \* the last registry call and how it ended
    prev,          \* the forward/backward call completed before the current one
    other,         \* a second call in progress on the same processor
    params2        \* params of a processor from another get_projection call

vars == <<params, extra_params, strategy, pc, dir, kw, img, grid, coords, maps,
          interp, ran, outcome, err, result, gcfg, gret, gprev, gcalls, icall,
          iret, tcall, tret, scall, sret, cobj, ccall, registry, rcall, prev,
          other, params2>>

procVars == <<params, extra_params, strategy, pc, dir, kw, img, grid, coords,
              maps, interp, ran, outcome, err, result>>
gridVars == <<gcfg, gret, gprev, gcalls>>
interpVars == <<icall, iret>>
transVars == <<tcall, tret>>
stratVars == <<scall, sret>>
cfgVars == <<cobj, ccall>>
regVars == <<registry, rcall>>
histVars == <<prev, other, params2>>

----------------------------------------------------------------------------
(* Bounds of the model *)

ImgH == 2        \* rows of the test images
ImgW == 3        \* columns of the test images
NumChan == 2     \* channels of the multi-channel test image
MaxGridCalls == 3  \* cap on the counter of direct _create_grid runs

(* Program constants (defaults of the configuration), fixed point *)

R == 1000                \* R = 1.0
lam0_deg == 0
lon_max == 180000
lat_min == -90000
lat_max == 90000
x_min == -1000
x_max == 1000
y_min == -1000
y_max == 1000
borderValue == 0

(* 1.0 in the fixed-point scale of planar and pixel coordinates *)
Unit == 10 * 10 * 10
(* Stand-in for the magnitude of a quotient by a float residue (about 1e16) *)
Huge == 100 * Unit

----------------------------------------------------------------------------
(* Python values held by the configuration dictionaries *)

Num(n) == [t |-> "num", v |-> n]
Str == [t |-> "str", v |-> 0]
Bool(b) == [t |-> "bool", v |-> IF b THEN 1 ELSE 0]
IsNum(p) == p.t = "num"
Truthy(p) == (p.t = "str") \/ (p.v # 0)

NaN == [nan |-> TRUE, v |-> 0]
Fl(n) == [nan |-> FALSE, v |-> n]

Abs(n) == IF n < 0 THEN -n ELSE n
Sign(n) == IF n < 0 THEN -1 ELSE IF n > 0 THEN 1 ELSE 0

(* shape of a 2-D array held as a sequence of rows *)
Shape(a) == <<Len(a), IF Len(a) = 0 THEN 0 ELSE Len(a[1])>>

(* element-wise application over a pair of same-shaped arrays *)
Map2(F(_, _), a, b) ==
    [i \in 1..Len(a) |-> [j \in 1..Len(a[i]) |-> F(a[i][j], b[i][j])]]

----------------------------------------------------------------------------
(* numpy.linspace and numpy.meshgrid *)

linspace(start, stop, num) ==
    IF num = 1 THEN <<start>>
    ELSE [k \in 1..num |-> start + ((k - 1) * (stop - start)) \div (num - 1)]

(* variant: matrix indexing, arrays of shape (len(xv), len(yv)) *)
meshgrid_ij(xv, yv) ==
    [a |-> [i \in 1..Len(xv) |-> [j \in 1..Len(yv) |-> xv[i]]],
     b |-> [i \in 1..Len(xv) |-> [j \in 1..Len(yv) |-> yv[j]]]]

(* meshgrid(xv, yv) returns arrays of shape (len(yv), len(xv)) *)
meshgrid(xv, yv) ==
    [a |-> [i \in 1..Len(yv) |-> [j \in 1..Len(xv) |-> xv[j]]],
     b |-> [i \in 1..Len(yv) |-> [j \in 1..Len(xv) |-> yv[i]]]]

(* tan(fov/2) * 1000 on the field-of-view values of the model *)
TanHalf(fov) ==
    CASE fov = 90000 -> 1000
      [] fov = 120000 -> 1732
      [] fov = 60000 -> 577


----------------------------------------------------------------------------
(* Exceptions: a raised exception is [ok |-> FALSE, kind, cause]; cause is
   the kind of the exception it was raised from ("none" when raised bare). *)

Raise(kind, cause) == [ok |-> FALSE, kind |-> kind, cause |-> cause]

----------------------------------------------------------------------------
(* Grid generation *)

(* GnomonicGridGeneration._create_grid: the body of each direction runs in
   a try block whose handler raises GridGenerationError from the exception.
   numpy.linspace raises on a non-numeric or negative number of samples and
   the arithmetic raises on a non-numeric bound. *)
_create_grid(cfg, direction) ==
    IF direction = "forward"
    THEN IF /\ IsNum(cfg.fov_deg) /\ IsNum(cfg.x_points) /\ IsNum(cfg.y_points)
            /\ cfg.x_points.v >= 0 /\ cfg.y_points.v >= 0
         THEN LET xm == (TanHalf(cfg.fov_deg.v) * R) \div Unit
                  g == meshgrid(linspace(-xm, xm, cfg.x_points.v),
                                linspace(-xm, xm, cfg.y_points.v))
              IN [ok |-> TRUE, a |-> g.a, b |-> g.b]
         ELSE Raise("GridGenerationError",
                    IF IsNum(cfg.x_points) /\ IsNum(cfg.y_points)
                       /\ IsNum(cfg.fov_deg)
                    THEN "ValueError" ELSE "TypeError")
    ELSE IF direction = "backward"
    THEN IF /\ IsNum(cfg.lon_min) /\ IsNum(cfg.lon_points) /\ IsNum(cfg.lat_points)
            /\ cfg.lon_points.v >= 0 /\ cfg.lat_points.v >= 0
         THEN LET g == meshgrid(linspace(cfg.lon_min.v, lon_max, cfg.lon_points.v),
                                linspace(lat_min, lat_max, cfg.lat_points.v))
              IN [ok |-> TRUE, a |-> g.a, b |-> g.b]
         ELSE Raise("GridGenerationError",
                    IF IsNum(cfg.lon_min) /\ IsNum(cfg.lon_points)
                       /\ IsNum(cfg.lat_points)
                    THEN "ValueError" ELSE "TypeError")
    ELSE Raise("GridGenerationError", "none")

(* variant: a call resets the field of view to its default *)
ConfigAfterGridReset(cfg, direction) == [cfg EXCEPT !.fov_deg = Num(90000)]

(* variant: a call leaves a smaller grid size behind in the configuration *)
ConfigAfterGridShrunk(cfg, direction) == [cfg EXCEPT !.x_points = [t |-> "num", v |-> 2]]

(* What a create_grid call does to the configuration it reads: nothing. *)
ConfigAfterGrid(cfg, direction) == cfg

(* variant: the direction is looked at only after _create_grid has run *)
create_grid_late(cfg, direction) ==
    LET g == _create_grid(cfg, direction)
    IN [ret |-> IF direction \notin {"forward", "backward"}
                THEN Raise("GridGenerationError", "none")
                ELSE IF g.ok THEN g ELSE Raise("GridGenerationError", g.kind),
        built |-> TRUE]

(* BaseGridGeneration.create_grid: the direction is validated before
   _create_grid is called; any exception of _create_grid is raised again as
   GridGenerationError.  built tells whether _create_grid was entered. *)
create_grid(cfg, direction) ==
    IF direction \notin {"forward", "backward"}
    THEN [ret |-> Raise("GridGenerationError", "none"), built |-> FALSE]
    ELSE LET g == _create_grid(cfg, direction)
         IN [ret |-> IF g.ok THEN g
                     ELSE Raise("GridGenerationError", g.kind),
             built |-> TRUE]

----------------------------------------------------------------------------
(* Projection strategy (gnomonic), centre phi1_deg = 0, lam0_deg = 0, R = 1 *)

(* arctan(|x| / R) in 1/1000 degree, on the planar values of the grids *)
AtanDeg(ax) ==
    CASE ax = 0 -> 0
      [] ax = 1000 -> 45000
      [] ax = 1732 -> 60000

(* arcsin(|y| / sqrt(x^2 + y^2 + R^2)) in 1/1000 degree *)
LatMag(ax, ay) ==
    CASE ay = 0 -> 0
      [] ax = 0 /\ ay = 1000 -> 45000
      [] ax = 1000 /\ ay = 1000 -> 35264
      [] ax = 1732 /\ ay = 1000 -> 26565
      [] ax = 0 /\ ay = 1732 -> 60000
      [] ax = 1000 /\ ay = 1732 -> 50768
      [] ax = 1732 /\ ay = 1732 -> 40893

(* GnomonicProjectionStrategy.forward at one grid point.  At rho = 0 the
   quotient (y * sin_c * cos(phi1)) / rho is 0/0 = NaN (a numpy warning, no
   exception), so lat is NaN; arctan2(0, 0) is 0. *)
ForwardLat(x, y) ==
    IF x = 0 /\ y = 0 THEN NaN ELSE Fl(-Sign(y) * LatMag(Abs(x), Abs(y)))

ForwardLon(x, y) == Fl(lam0_deg + Sign(x) * AtanDeg(Abs(x)))

(* cos and sin (times 1000) on the multiples of 45 degrees and on the
   angles forward returns for the planar values of the grids *)
CosK(d) ==
    CASE Abs(d) = 0 -> 1000
      [] Abs(d) = 45000 -> 707
      [] Abs(d) = 90000 -> 0
      [] Abs(d) = 135000 -> -707
      [] Abs(d) = 180000 -> -1000
      [] Abs(d) = 60000 -> 500
      [] Abs(d) = 35264 -> 816
      [] Abs(d) = 26565 -> 894
      [] Abs(d) = 50768 -> 632
      [] Abs(d) = 40893 -> 756

SinK(d) ==
    Sign(d) * (CASE Abs(d) = 0 -> 0
                 [] Abs(d) = 45000 -> 707
                 [] Abs(d) = 90000 -> 1000
                 [] Abs(d) = 135000 -> 707
                 [] Abs(d) = 180000 -> 0
                 [] Abs(d) = 60000 -> 866
                 [] Abs(d) = 35264 -> 577
                 [] Abs(d) = 26565 -> 447
                 [] Abs(d) = 50768 -> 775
                 [] Abs(d) = 40893 -> 655)

(* In float64 cos(+-pi/2) is the positive residue 6.1e-17, never 0: the sign
   of a cosine whose table value is 0 is positive. *)
SgnCos(d) == IF CosK(d) >= 0 THEN 1 ELSE -1

(* quotient rounded toward zero *)
Quo(n, d) == Sign(n) * Sign(d) * (Abs(n) \div Abs(d))

(* sign of cos_c = cos(phi) * cos(lam - lam0) for phi1 = 0; the guard
   np.where(cos_c == 0, 1e-10, cos_c) replaces an exact zero by a positive
   number, so the sign is never 0 *)
CosCSign(lat, lon) == SgnCos(lat) * SgnCos(lon - lam0_deg)

(* GnomonicProjectionStrategy.backward at one grid point *)
BackwardX(lat, lon) ==
    IF CosK(lon - lam0_deg) = 0
    THEN Fl(Sign(SinK(lon - lam0_deg)) * Huge)
    ELSE Fl(Quo(R * SinK(lon - lam0_deg), CosK(lon - lam0_deg)))

BackwardY(lat, lon) ==
    IF SinK(lat) = 0 THEN Fl(0)
    ELSE IF CosK(lat) = 0 \/ CosK(lon - lam0_deg) = 0
    THEN Fl(Sign(SinK(lat)) * CosCSign(lat, lon) * Huge)
    ELSE Fl(Quo(R * SinK(lat) * 1000, CosK(lat) * CosK(lon - lam0_deg)))

(* variant: the mask is true wherever cos_c is not negative one *)
BackwardMaskAll(lat, lon) == TRUE

BackwardMask(lat, lon) == CosCSign(lat, lon) > 0

(* GnomonicProjectionStrategy.forward(x, y) -> (lat, lon): element-wise, in
   a try block whose handler raises ProcessingError from the exception;
   np.deg2rad raises TypeError on a non-numeric centre. *)
StrategyForward(cfg, x, y) ==
    IF IsNum(cfg.phi1_deg)
    THEN [ok |-> TRUE, a |-> Map2(ForwardLat, x, y), b |-> Map2(ForwardLon, x, y)]
    ELSE Raise("ProcessingError", "TypeError")

(* strategy.backward(lat, lon) -> (x, y, mask).  kind "nomask" is a strategy
   whose backward returns None for the mask. *)
StrategyBackward(kind, cfg, lat, lon) ==
    IF IsNum(cfg.phi1_deg)
    THEN [ok |-> TRUE, a |-> Map2(BackwardX, lat, lon),
          b |-> Map2(BackwardY, lat, lon),
          hasMask |-> kind # "nomask",
          mask |-> Map2(BackwardMask, lat, lon)]
    ELSE Raise("ProcessingError", "TypeError")

----------------------------------------------------------------------------
(* Coordinate-to-pixel transforms.  A pixel coordinate is an exact fraction
   [nan, num, den] in lowest terms with den > 0: the transforms do not round. *)

RECURSIVE GCD(_, _)
GCD(a, b) == IF b = 0 THEN a ELSE GCD(b, a % b)

Rat(n, d) ==
    IF d = 0 THEN [nan |-> TRUE, num |-> 0, den |-> 1]
    ELSE LET g == GCD(Abs(n), Abs(d))
         IN [nan |-> FALSE, num |-> Sign(d) * (n \div g), den |-> Abs(d) \div g]

RatNaN == [nan |-> TRUE, num |-> 0, den |-> 1]

(* (value - lo) / (hi - lo) * (size - 1) for a float value *)
Rescale(f, lo, hi, size) ==
    IF f.nan THEN RatNaN ELSE Rat((f.v - lo) * (size - 1), hi - lo)

(* CoordinateTransformer.latlon_to_image_coords(lat, lon, config, shape) *)
latlon_to_image_coords(lat, lon, cfg, shape) ==
    IF Len(shape) < 2 THEN Raise("TransformationError", "none")
    ELSE IF ~IsNum(cfg.lon_min) THEN Raise("TransformationError", "TypeError")
    ELSE LET H == shape[1]
             W == shape[2]
             mx(la, lo) == Rescale(lo, cfg.lon_min.v, lon_max, W)
             my(la, lo) == Rescale([nan |-> la.nan, v |-> -la.v], -lat_max, -lat_min, H)
         IN [ok |-> TRUE, map_x |-> Map2(mx, lat, lon), map_y |-> Map2(my, lat, lon)]

(* CoordinateTransformer.xy_to_image_coords(x, y, config) *)
xy_to_image_coords(x, y, cfg) ==
    IF ~(IsNum(cfg.x_points) /\ IsNum(cfg.y_points))
    THEN Raise("TransformationError", "TypeError")
    ELSE LET mx(xx, yy) == Rescale(xx, x_min, x_max, cfg.x_points.v)
             my(xx, yy) == Rescale([nan |-> yy.nan, v |-> -yy.v], -y_max, -y_min,
                                   cfg.y_points.v)
         IN [ok |-> TRUE, map_x |-> Map2(mx, x, y), map_y |-> Map2(my, x, y)]

----------------------------------------------------------------------------
(* Images and interpolation *)

(* pixel value of the test images: distinct per position and channel *)
PixelAt(i, j, c) == 10 * ((i - 1) * ImgW + j) + c

ImgColor ==
    [isArray |-> TRUE, ndim |-> 3, dtype |-> "uint8",
     px |-> [i \in 1..ImgH |-> [j \in 1..ImgW |-> [c \in 1..NumChan |-> PixelAt(i, j, c)]]]]
ImgGray ==
    [isArray |-> TRUE, ndim |-> 2, dtype |-> "uint8",
     px |-> [i \in 1..ImgH |-> [j \in 1..ImgW |-> <<PixelAt(i, j, 0)>>]]]
ImgInt64 == [ImgColor EXCEPT !.dtype = "int64"]
NotAnImage == [isArray |-> FALSE, ndim |-> 0, dtype |-> "str", px |-> <<>>]

Images == {ImgColor, ImgGray, ImgInt64, NotAnImage}

(* img.shape *)
ShapeOf(im) ==
    IF im.ndim = 2 THEN Shape(im.px)
    ELSE <<Len(im.px), Len(im.px[1]), Len(im.px[1][1])>>

(* map.astype(np.float32): the fraction becomes a number, here in 1/1000 pixel *)
ToPix(r) == (r.num * Unit) \div r.den

(* source pixel (row y0, column x0, 0-based) with BORDER_CONSTANT *)
Src(im, y0, x0, c) ==
    IF y0 >= 0 /\ y0 < Len(im.px) /\ x0 >= 0 /\ x0 < Len(im.px[1])
    THEN im.px[y0 + 1][x0 + 1][c]
    ELSE borderValue

(* cv2.remap at one point, INTER_LINEAR: bilinear weights of the four
   neighbours; a NaN coordinate converts to an index outside the image *)
Sample(im, rx, ry, c) ==
    IF rx.nan \/ ry.nan THEN borderValue
    ELSE LET xp == ToPix(rx)
             yp == ToPix(ry)
             x0 == xp \div Unit
             y0 == yp \div Unit
             fx == xp - Unit * x0
             fy == yp - Unit * y0
             tot == Src(im, y0, x0, c) * ((Unit - fx) * (Unit - fy))
                  + Src(im, y0, x0 + 1, c) * (fx * (Unit - fy))
                  + Src(im, y0 + 1, x0, c) * ((Unit - fx) * fy)
                  + Src(im, y0 + 1, x0 + 1, c) * (fx * fy)
         IN (2 * tot + Unit * Unit) \div (2 * Unit * Unit)

(* cv2.remap(input_img, map_x, map_y, ...): one output pixel per map entry *)
remap(im, map_x, map_y) ==
    [i \in 1..Len(map_x) |-> [j \in 1..Len(map_x[i]) |->
        [c \in 1..Len(im.px[1][1]) |-> Sample(im, map_x[i][j], map_y[i][j], c)]]]

(* variant: the mask is ignored *)
ApplyMaskNone(px, mask) == px

(* result *= mask[:, :, None] *)
ApplyMask(px, mask) ==
    [i \in 1..Len(px) |-> [j \in 1..Len(px[i]) |->
        [c \in 1..Len(px[i][j]) |-> px[i][j][c] * (IF mask[i][j] THEN 1 ELSE 0)]]]

(* BaseInterpolation.interpolate(input_img, map_x, map_y, mask).  hasMask
   FALSE is mask=None.  cv2.remap rejects an int64 image (cv2.error); the
   in-place product with mask[:, :, None] raises ValueError on a 2-D result. *)
interpolate(im, map_x, map_y, hasMask, mask) ==
    IF ~im.isArray THEN Raise("ValueError", "none")
    ELSE IF im.dtype # "uint8" THEN Raise("cv2.error", "cv2.error")
    ELSE LET res == remap(im, map_x, map_y)
         IN IF ~hasMask THEN [ok |-> TRUE, ndim |-> im.ndim, px |-> res]
            ELSE IF Shape(mask) # Shape(res) THEN Raise("ValueError", "none")
            ELSE IF im.ndim = 2 THEN Raise("ValueError", "none")
            ELSE [ok |-> TRUE, ndim |-> im.ndim, px |-> ApplyMask(res, mask)]

(* variant: no flip *)
flip_none(px) == px

(* cv2.flip(image, 0): the rows in reverse order *)
flip(px) == [i \in 1..Len(px) |-> px[Len(px) + 1 - i]]

----------------------------------------------------------------------------
(* Configuration: BaseProjectionConfig over a config_object that carries the
   params dictionary.  BaseProjectionConfig.params is that same dictionary
   (an alias, not a copy), and the grid generator, the strategy and the
   transformer read their parameters from it through config_object. *)

Absent == [t |-> "absent", v |-> 0]
Given(k, key) == k[key].t # "absent"

ParamKeys == {"x_points", "y_points", "lon_points", "lat_points", "fov_deg",
              "phi1_deg", "lon_min"}
ExtraKeys == {"return_mask"}

DefaultParams ==
    [x_points |-> Num(3), y_points |-> Num(3), lon_points |-> Num(3),
     lat_points |-> Num(3), fov_deg |-> Num(90000), phi1_deg |-> Num(0),
     lon_min |-> Num(-180000)]

NoExtra == [return_mask |-> Absent]

NoKw == [k \in ParamKeys \cup ExtraKeys |-> Absent]

(* the keyword arguments the calls of the model pass *)
KwMenu ==
    { NoKw,
      [NoKw EXCEPT !.x_points = Num(2)],
      [NoKw EXCEPT !.x_points = Num(3)],
      [NoKw EXCEPT !.x_points = Str],
      [NoKw EXCEPT !.fov_deg = Num(120000)],
      [NoKw EXCEPT !.fov_deg = Num(90000)],
      [NoKw EXCEPT !.phi1_deg = Str],
      [NoKw EXCEPT !.phi1_deg = Num(0)],
      [NoKw EXCEPT !.lon_min = Str],
      [NoKw EXCEPT !.lon_min = Num(-180000)],
      [NoKw EXCEPT !.lat_points = Num(5)],
      [NoKw EXCEPT !.lat_points = Num(2)],
      [NoKw EXCEPT !.lat_points = Num(3)],
      [NoKw EXCEPT !.return_mask = Bool(TRUE)],
      [NoKw EXCEPT !.return_mask = Bool(FALSE)],
      [NoKw EXCEPT !.return_mask = Bool(TRUE), !.lat_points = Num(5)] }

(* variant: keys not passed fall back to their defaults *)
UpdateParamsFresh(p, k) ==
    [key \in DOMAIN p |-> IF Given(k, key) THEN k[key] ELSE DefaultParams[key]]

(* variant: the overrides are not kept in params *)
UpdateParamsNone(p, k) == p

(* BaseProjectionConfig.update: a key of params is overwritten in params,
   any other key goes to extra_params; keys not passed keep their value *)
UpdateParams(p, k) ==
    [key \in DOMAIN p |-> IF Given(k, key) THEN k[key] ELSE p[key]]

UpdateExtra(p, e, k) ==
    [key \in DOMAIN e |->
        IF Given(k, key) /\ key \notin DOMAIN p THEN k[key] ELSE e[key]]

(* variant: the mask is applied in every call *)
WantsMaskAlways(k) == TRUE

(* kwargs.get("return_mask", False) *)
WantsMask(k) == Given(k, "return_mask") /\ Truthy(k.return_mask)

----------------------------------------------------------------------------
(* ProjectionProcessor *)

StrategyKinds == {"gnomonic", "nomask"}

NoGrid == [a |-> <<>>, b |-> <<>>]
NoCoords == [a |-> <<>>, b |-> <<>>, hasMask |-> FALSE, mask |-> <<>>]
NoMaps == [map_x |-> <<>>, map_y |-> <<>>]
NoImage == [ndim |-> 0, px |-> <<>>]
NoErr == [kind |-> "none", cause |-> "none", stage |-> "none"]

Stages(d) ==
    IF d = "forward" THEN <<"grid", "project", "transform", "interp">>
    ELSE <<"grid", "project", "transform", "interp", "final">>

(* variant: the coordinate-to-pixel stage raises ProcessingError *)
StageErrorKindShared(stage) ==
    CASE stage = "grid" -> "GridGenerationError"
      [] stage = "project" -> "ProcessingError"
      [] stage = "transform" -> "ProcessingError"
      [] stage = "interp" -> "InterpolationError"
      [] stage = "final" -> "ProcessingError"

(* the error kind the except clause of each stage raises *)
StageErrorKind(stage) ==
    CASE stage = "grid" -> "GridGenerationError"
      [] stage = "project" -> "ProcessingError"
      [] stage = "transform" -> "TransformationError"
      [] stage = "interp" -> "InterpolationError"
      [] stage = "final" -> "ProcessingError"

(* variant: a failed stage is followed by the next one *)
AfterStageContinue(d, stage, ok) ==
    CASE stage = "grid" -> "project"
      [] stage = "project" -> "transform"
      [] stage = "transform" -> "interp"
      [] stage = "interp" -> IF d = "forward" THEN "done" ELSE "final"
      [] stage = "final" -> "done"

(* where a call continues after a stage: a raise ends it, otherwise the
   statement after the try block runs *)
AfterStage(d, stage, ok) ==
    IF ~ok THEN "done"
    ELSE CASE stage = "grid" -> "project"
           [] stage = "project" -> "transform"
           [] stage = "transform" -> "interp"
           [] stage = "interp" -> IF d = "forward" THEN "done" ELSE "final"
           [] stage = "final" -> "done"

(* variant: the flip comes first and the mask is applied to the flipped image *)
FinalizeFlipFirst(back, wantMask, hasMask, mask) ==
    IF wantMask /\ ~hasMask THEN Raise("ValueError", "none")
    ELSE IF wantMask /\ Shape(mask) # Shape(back.px) THEN Raise("ValueError", "none")
    ELSE IF wantMask
    THEN [ok |-> TRUE, ndim |-> back.ndim, px |-> ApplyMask(flip(back.px), mask),
          steps |-> <<"flip", "mask">>]
    ELSE [ok |-> TRUE, ndim |-> back.ndim, px |-> flip(back.px),
          steps |-> <<"flip">>]

(* the last block of backward: the mask is applied again when return_mask
   is truthy, then the image is flipped; steps lists what ran, in order *)
Finalize(back, wantMask, hasMask, mask) ==
    IF wantMask /\ ~hasMask THEN Raise("ValueError", "none")
    ELSE IF wantMask /\ Shape(mask) # Shape(back.px) THEN Raise("ValueError", "none")
    ELSE IF wantMask
    THEN [ok |-> TRUE, ndim |-> back.ndim, px |-> flip(ApplyMask(back.px, mask)),
          steps |-> <<"mask", "flip">>]
    ELSE [ok |-> TRUE, ndim |-> back.ndim, px |-> flip(back.px),
          steps |-> <<"flip">>]

(* no direct call has been made on the stand-alone components *)
NoCall == [n |-> 0]

GridIdle ==
    /\ gcfg = DefaultParams
    /\ gret = NoCall
    /\ gprev = NoCall
    /\ gcalls = 0

InterpIdle ==
    /\ icall = NoCall
    /\ iret = NoCall

TransIdle ==
    /\ tcall = NoCall
    /\ tret = NoCall

StratIdle ==
    /\ scall = NoCall
    /\ sret = NoCall

ConfigIdle ==
    /\ cobj = NoCall
    /\ ccall = NoCall

(* ProjectionRegistry._registry = {}: a dict from names to components, empty *)
EmptyRegistry == <<>>

RegistryIdle ==
    /\ registry = EmptyRegistry
    /\ rcall = NoCall

(* no earlier call, no second call, and the second processor untouched *)
HistIdle ==
    /\ prev = NoCall
    /\ other = NoCall
    /\ params2 = DefaultParams

(* a processor on which no call has been made *)
ProcIdle ==
    /\ params = DefaultParams
    /\ extra_params = NoExtra
    /\ pc = "idle"
    /\ dir = "forward"
    /\ kw = NoKw
    /\ img = NotAnImage
    /\ grid = NoGrid
    /\ coords = NoCoords
    /\ maps = NoMaps
    /\ interp = NoImage
    /\ ran = <<>>
    /\ outcome = "none"
    /\ err = NoErr
    /\ result = NoImage

Init ==
    /\ ProcIdle
    /\ strategy \in StrategyKinds
    /\ GridIdle
    /\ InterpIdle
    /\ TransIdle
    /\ StratIdle
    /\ ConfigIdle
    /\ RegistryIdle
    /\ HistIdle

(* a stage raised: the call ends with the stage's error kind, raised from
   the exception caught *)
Failed(stage, caught) ==
    /\ pc' = AfterStage(dir, stage, FALSE)
    /\ outcome' = "error"
    /\ err' = [kind |-> StageErrorKind(stage), cause |-> caught.kind, stage |-> stage]

(* variant: the overrides are merged before the image is looked at *)
MergeOverridesUnchecked(p, e, k, im) ==
    [params |-> UpdateParams(p, k), extra_params |-> UpdateExtra(p, e, k)]

(* the configuration after the first lines of forward and backward: the
   raise for an image that is not an array comes before config.update *)
MergeOverrides(p, e, k, im) ==
    IF ~im.isArray THEN [params |-> p, extra_params |-> e]
    ELSE [params |-> UpdateParams(p, k), extra_params |-> UpdateExtra(p, e, k)]

(* forward(img, kwargs) and backward(rect_img, kwargs) up to the first
   try block: the type check of the image, then config.update of the kwargs *)
BeginCall(d, k, im) ==
    /\ pc \in {"idle", "done"}
    /\ dir' = d
    /\ kw' = k
    /\ img' = im
    /\ ran' = <<>>
    /\ grid' = NoGrid
    /\ coords' = NoCoords
    /\ maps' = NoMaps
    /\ interp' = NoImage
    /\ result' = NoImage
    /\ params' = MergeOverrides(params, extra_params, k, im).params
    /\ extra_params' = MergeOverrides(params, extra_params, k, im).extra_params
    /\ IF ~im.isArray
       THEN /\ pc' = "done"
            /\ outcome' = "error"
            /\ err' = [kind |-> "ValueError", cause |-> "none", stage |-> "none"]
       ELSE /\ pc' = "grid"
            /\ outcome' = "none"
            /\ err' = NoErr
    /\ UNCHANGED <<strategy, gridVars, interpVars, transVars, stratVars, cfgVars, regVars>>

(* a call on the processor, with no other call in progress *)
Begin(d, k, im) ==
    /\ BeginCall(d, k, im)
    /\ UNCHANGED histVars

GridStage ==
    /\ pc = "grid"
    /\ LET g == create_grid(params, dir).ret
       IN /\ ran' = Append(ran, "grid")
          /\ params' = ConfigAfterGrid(params, dir)
          /\ IF g.ok
             THEN /\ grid' = [a |-> g.a, b |-> g.b]
                  /\ pc' = AfterStage(dir, "grid", TRUE)
                  /\ UNCHANGED <<outcome, err>>
             ELSE /\ Failed("grid", g)
                  /\ UNCHANGED grid
    /\ UNCHANGED <<extra_params, strategy, dir, kw, img, coords, maps, interp,
                   result, gridVars, interpVars, transVars, stratVars, cfgVars, regVars, histVars>>

(* forward: lat, lon = projection.forward(x_grid, y_grid)
   backward: lon_grid, lat_grid = create_grid('backward');
             x, y, mask = projection.backward(lat_grid, lon_grid) *)
ProjectStage ==
    /\ pc = "project"
    /\ LET r == IF dir = "forward"
                THEN StrategyForward(params, grid.a, grid.b)
                ELSE StrategyBackward(strategy, params, grid.b, grid.a)
       IN /\ ran' = Append(ran, "project")
          /\ IF r.ok
             THEN /\ coords' = IF dir = "forward"
                               THEN [a |-> r.a, b |-> r.b, hasMask |-> FALSE, mask |-> <<>>]
                               ELSE [a |-> r.a, b |-> r.b, hasMask |-> r.hasMask,
                                     mask |-> r.mask]
                  /\ pc' = AfterStage(dir, "project", TRUE)
                  /\ UNCHANGED <<outcome, err>>
             ELSE /\ Failed("project", r)
                  /\ UNCHANGED coords
    /\ UNCHANGED <<params, extra_params, strategy, dir, kw, img, grid, maps, interp,
                   result, gridVars, interpVars, transVars, stratVars, cfgVars, regVars, histVars>>

TransformStage ==
    /\ pc = "transform"
    /\ LET r == IF dir = "forward"
                THEN latlon_to_image_coords(coords.a, coords.b, params, ShapeOf(img))
                ELSE xy_to_image_coords(coords.a, coords.b, params)
       IN /\ ran' = Append(ran, "transform")
          /\ IF r.ok
             THEN /\ maps' = [map_x |-> r.map_x, map_y |-> r.map_y]
                  /\ pc' = AfterStage(dir, "transform", TRUE)
                  /\ UNCHANGED <<outcome, err>>
             ELSE /\ Failed("transform", r)
                  /\ UNCHANGED maps
    /\ UNCHANGED <<params, extra_params, strategy, dir, kw, img, grid, coords, interp,
                   result, gridVars, interpVars, transVars, stratVars, cfgVars, regVars, histVars>>

(* forward returns the interpolated image; backward passes the mask only
   when return_mask is truthy in this call's kwargs *)
InterpStage ==
    /\ pc = "interp"
    /\ LET r == IF dir = "forward"
                THEN interpolate(img, maps.map_x, maps.map_y, FALSE, <<>>)
                ELSE interpolate(img, maps.map_x, maps.map_y,
                                 WantsMask(kw) /\ coords.hasMask, coords.mask)
       IN /\ ran' = Append(ran, "interp")
          /\ IF r.ok
             THEN /\ interp' = [ndim |-> r.ndim, px |-> r.px]
                  /\ pc' = AfterStage(dir, "interp", TRUE)
                  /\ IF dir = "forward"
                     THEN /\ result' = [ndim |-> r.ndim, px |-> r.px]
                          /\ outcome' = "image"
                     ELSE UNCHANGED <<result, outcome>>
                  /\ UNCHANGED err
             ELSE /\ Failed("interp", r)
                  /\ UNCHANGED <<interp, result>>
    /\ UNCHANGED <<params, extra_params, strategy, dir, kw, img, grid, coords, maps,
                   gridVars, interpVars, transVars, stratVars, cfgVars, regVars, histVars>>

FinalStage ==
    /\ pc = "final"
    /\ LET r == Finalize(interp, WantsMask(kw), coords.hasMask, coords.mask)
       IN IF r.ok
          THEN /\ ran' = Append(ran, "final") \o r.steps
               /\ result' = [ndim |-> r.ndim, px |-> r.px]
               /\ outcome' = "image"
               /\ pc' = AfterStage(dir, "final", TRUE)
               /\ UNCHANGED err
          ELSE /\ ran' = Append(ran, "final")
               /\ Failed("final", r)
               /\ UNCHANGED result
    /\ UNCHANGED <<params, extra_params, strategy, dir, kw, img, grid, coords, maps,
                   interp, gridVars, interpVars, transVars, stratVars, cfgVars, regVars, histVars>>

Next ==
    \/ \E d \in {"forward", "backward"}, k \in KwMenu, im \in Images : Begin(d, k, im)
    \/ GridStage
    \/ ProjectStage
    \/ TransformStage
    \/ InterpStage
    \/ FinalStage

Spec == Init /\ [][Next]_vars

----------------------------------------------------------------------------
(* Properties of the processor pipeline *)

IsStage(s) == s \in {"grid", "project", "transform", "interp", "final"}
StagesRan == SelectSeq(ran, IsStage)
LastStage == IF StagesRan = <<>> THEN "none" ELSE StagesRan[Len(StagesRan)]
StageFailed == outcome = "error" /\ LastStage # "none"

(* C1, as the code has it: a stage that fails ends the call with the
   stage's own error kind raised from the exception caught: grid ->
   GridGenerationError, projection -> ProcessingError, coordinate-to-pixel
   -> TransformationError, interpolation -> InterpolationError, and the
   closing mask-and-flip block of backward -> ProcessingError.  So
   GridGenerationError, TransformationError and InterpolationError each
   name one stage, and ProcessingError names the projection or the closing
   block. *)
C1_StageErrorKinds ==
    StageFailed =>
        /\ err.cause # "none"
        /\ LastStage = "grid" => err.kind = "GridGenerationError"
        /\ LastStage = "project" => err.kind = "ProcessingError"
        /\ LastStage = "transform" => err.kind = "TransformationError"
        /\ LastStage = "interp" => err.kind = "InterpolationError"
        /\ LastStage = "final" => err.kind = "ProcessingError"
        /\ err.kind = "GridGenerationError" => LastStage = "grid"
        /\ err.kind = "TransformationError" => LastStage = "transform"
        /\ err.kind = "InterpolationError" => LastStage = "interp"
        /\ err.kind = "ProcessingError" => LastStage \in {"project", "final"}

(* C1 witness: the coordinate-to-pixel stage failed in a backward call *)
C1_Witness ==
    /\ StageFailed
    /\ dir = "backward"
    /\ LastStage = "transform"
    /\ err.kind = "TransformationError"
    /\ err.cause = "TransformationError"

(* C1 as stated: the error kind identifies the one stage that failed, each
   of the four kinds belonging to exactly one of the four stages *)
C1_KindIdentifiesStage ==
    StageFailed =>
        /\ err.kind = "GridGenerationError" <=> LastStage = "grid"
        /\ err.kind = "ProcessingError" <=> LastStage = "project"
        /\ err.kind = "TransformationError" <=> LastStage = "transform"
        /\ err.kind = "InterpolationError" <=> LastStage = "interp"

(* C2: the stages of a call run in order with none skipped; a failing stage
   ends the call with an error and no image, nothing running after it; a
   call that returns an image has run every stage *)
C2_FailureAborts ==
    /\ Len(StagesRan) <= Len(Stages(dir))
    /\ \A n \in 1..Len(StagesRan) : StagesRan[n] = Stages(dir)[n]
    /\ outcome = "error" => pc = "done" /\ result = NoImage /\ err # NoErr
    /\ StageFailed => err.stage = LastStage
    /\ outcome = "image" => pc = "done" /\ err = NoErr /\ StagesRan = Stages(dir)
    /\ pc = "done" => outcome \in {"error", "image"}

(* C2 witness: a forward call ended by its projection stage *)
C2_Witness ==
    /\ outcome = "error"
    /\ dir = "forward"
    /\ ran = <<"grid", "project">>
    /\ pc = "done"
    /\ result = NoImage

(* extent and shape of the grid a configuration asks for *)
ExpectedShape ==
    IF dir = "forward" THEN <<params.y_points.v, params.x_points.v>>
    ELSE <<params.lat_points.v, params.lon_points.v>>

(* C3: once the image check has passed, every override of the call is in
   the configuration before the grid is generated, the grid of that call is
   built from the overridden values, and a parameter changes only by being
   overridden, so an override stays for the calls after it *)
C3_OverridesMerged ==
    /\ [](/\ (pc # "idle" /\ img.isArray) =>
                \A key \in ParamKeys : Given(kw, key) => params[key] = kw[key]
          /\ grid # NoGrid =>
                /\ Shape(grid.a) = ExpectedShape
                /\ dir = "forward" =>
                      grid.a[1][1] = -((TanHalf(params.fov_deg.v) * R) \div Unit)
                /\ (dir = "forward" /\ Given(kw, "x_points")) =>
                      Len(grid.a[1]) = kw.x_points.v
                /\ (dir = "forward" /\ Given(kw, "fov_deg")) =>
                      grid.b[1][1] = -((TanHalf(kw.fov_deg.v) * R) \div Unit)
                /\ (dir = "backward" /\ Given(kw, "lat_points")) =>
                      Len(grid.a) = kw.lat_points.v)
    /\ [][\A key \in ParamKeys :
            params'[key] # params[key] =>
                pc' = "grid" /\ Given(kw', key) /\ params'[key] = kw'[key]]_vars

(* C3 witness: a forward grid built with the field of view an earlier call
   set, in a call that overrides only x_points *)
C3_Witness ==
    /\ dir = "forward"
    /\ grid # NoGrid
    /\ ~Given(kw, "fov_deg")
    /\ kw.x_points = Num(2)
    /\ params.fov_deg = Num(120000)
    /\ grid.a[1] = <<-1732, 1732>>

BackwardDone == pc = "done" /\ outcome = "image" /\ dir = "backward"
ForwardDone == pc = "done" /\ outcome = "image" /\ dir = "forward"

(* C4, as the code has it: backward runs grid generation, the projection's
   backward, planar-to-pixel, interpolation (with the mask only when
   return_mask is truthy), then the mask re-application when return_mask is
   truthy, and the vertical flip last *)
C4_BackwardOrder ==
    BackwardDone =>
        /\ ran = <<"grid", "project", "transform", "interp", "final">>
                 \o (IF WantsMask(kw) THEN <<"mask", "flip">> ELSE <<"flip">>)
        /\ result.px = flip(IF WantsMask(kw) THEN ApplyMask(interp.px, coords.mask)
                            ELSE interp.px)

(* C4 witness: a backward call with return_mask that returned an image *)
C4_Witness ==
    /\ BackwardDone
    /\ WantsMask(kw)
    /\ \E i \in 1..Len(coords.mask), j \in 1..Len(coords.mask[1]) : ~coords.mask[i][j]
    /\ \E i \in 1..Len(result.px), j \in 1..Len(result.px[1]) : result.px[i][j][1] # 0

(* C4 as stated: the mask re-application comes only after the flip *)
C4_MaskAfterFlip ==
    \A m, f \in 1..Len(ran) : (ran[m] = "mask" /\ ran[f] = "flip") => f < m

(* C5: within one call the grid arrays, the strategy's output arrays, the
   pixel maps and the mask all have the grid's 2-D shape: (y_points,
   x_points) forward and (lat_points, lon_points) backward *)
C5_SameShape ==
    /\ grid # NoGrid => Shape(grid.a) = ExpectedShape /\ Shape(grid.b) = ExpectedShape
    /\ coords # NoCoords =>
          /\ Shape(coords.a) = ExpectedShape
          /\ Shape(coords.b) = ExpectedShape
          /\ (dir = "backward" /\ coords.hasMask) => Shape(coords.mask) = ExpectedShape
    /\ maps # NoMaps =>
          Shape(maps.map_x) = ExpectedShape /\ Shape(maps.map_y) = ExpectedShape

(* C5 witness: a backward call on a 5 x 3 grid got as far as its pixel maps *)
C5_Witness ==
    /\ dir = "backward"
    /\ coords.hasMask
    /\ Shape(grid.a) = <<5, 3>>
    /\ Shape(coords.mask) = <<5, 3>>
    /\ Shape(maps.map_y) = <<5, 3>>

(* the source sampled at the pixel coordinate derived from forward grid
   point (i, j) *)
FromGridForward(i, j, c) ==
    LET la == ForwardLat(grid.a[i][j], grid.b[i][j])
        lo == ForwardLon(grid.a[i][j], grid.b[i][j])
    IN Sample(img,
              Rescale(lo, params.lon_min.v, lon_max, ShapeOf(img)[2]),
              Rescale([nan |-> la.nan, v |-> -la.v], -lat_max, -lat_min, ShapeOf(img)[1]),
              c)

(* the source sampled at the pixel coordinate derived from backward grid
   point (i, j), zero where the call applies the mask and the mask is false *)
FromGridBackward(i, j, c) ==
    LET lo == grid.a[i][j]
        la == grid.b[i][j]
        px == BackwardX(la, lo)
        py == BackwardY(la, lo)
    IN IF WantsMask(kw) /\ coords.hasMask /\ ~BackwardMask(la, lo) THEN 0
       ELSE Sample(img,
                   Rescale(px, x_min, x_max, params.x_points.v),
                   Rescale([nan |-> py.nan, v |-> -py.v], -y_max, -y_min,
                           params.y_points.v),
                   c)

(* C6, as the code has it: forward output pixel (i, j) is the source at the
   coordinate derived from grid point (i, j); backward output pixel (i, j)
   is the source at the coordinate derived from grid point (rows + 1 - i, j),
   the row mirrored by the closing flip *)
C6_PixelFromGridPoint ==
    /\ ForwardDone =>
          /\ Shape(result.px) = Shape(grid.a)
          /\ \A i \in 1..Len(result.px), j \in 1..Len(result.px[1]) :
                \A c \in 1..Len(result.px[i][j]) :
                    result.px[i][j][c] = FromGridForward(i, j, c)
    /\ BackwardDone =>
          /\ Shape(result.px) = Shape(grid.a)
          /\ \A i \in 1..Len(result.px), j \in 1..Len(result.px[1]) :
                \A c \in 1..Len(result.px[i][j]) :
                    result.px[i][j][c] = FromGridBackward(Len(grid.a) + 1 - i, j, c)

(* C6 witness: a backward image whose rows are not mirror images of each
   other *)
C6_Witness ==
    /\ BackwardDone
    /\ Len(result.px) = 5
    /\ result.px # flip(result.px)

(* C6 as stated: in both directions output pixel (i, j) comes from grid
   point (i, j), same row and same column *)
C6_SameRowAndColumn ==
    /\ ForwardDone =>
          \A i \in 1..Len(result.px), j \in 1..Len(result.px[1]) :
              \A c \in 1..Len(result.px[i][j]) :
                  result.px[i][j][c] = FromGridForward(i, j, c)
    /\ BackwardDone =>
          \A i \in 1..Len(result.px), j \in 1..Len(result.px[1]) :
              \A c \in 1..Len(result.px[i][j]) :
                  result.px[i][j][c] = FromGridBackward(i, j, c)

----------------------------------------------------------------------------
(* Direct calls of create_grid on a stand-alone grid generator, with
   updates of its configuration in between *)

GridKwMenu ==
    { [NoKw EXCEPT !.x_points = Num(2)],
      [NoKw EXCEPT !.x_points = Num(3)],
      [NoKw EXCEPT !.x_points = Str],
      [NoKw EXCEPT !.fov_deg = Num(120000)],
      [NoKw EXCEPT !.fov_deg = Num(90000)] }

Directions == {"forward", "backward", "sideways"}

InitGrid ==
    /\ ProcIdle
    /\ strategy = "gnomonic"
    /\ GridIdle
    /\ InterpIdle
    /\ TransIdle
    /\ StratIdle
    /\ ConfigIdle
    /\ RegistryIdle
    /\ HistIdle

(* grid_generator.create_grid(direction) *)
GridCall(direction) ==
    /\ gret.n < MaxGridCalls
    /\ LET r == create_grid(gcfg, direction)
           after == IF r.built THEN ConfigAfterGrid(gcfg, direction) ELSE gcfg
       IN /\ gcfg' = after
          /\ gcalls' = gcalls + (IF r.built THEN 1 ELSE 0)
          /\ gprev' = gret
          /\ gret' = [n |-> gret.n + 1, direction |-> direction, cfg |-> gcfg,
                      cfgAfter |-> after, ret |-> r.ret, built |-> r.built,
                      runsBefore |-> gcalls]
    /\ UNCHANGED <<procVars, interpVars, transVars, stratVars, cfgVars, regVars, histVars>>

(* config.update(...) between two calls *)
GridConfigUpdate(k) ==
    /\ gcfg' = UpdateParams(gcfg, k)
    /\ UNCHANGED <<gret, gprev, gcalls, procVars, interpVars, transVars, stratVars, cfgVars, regVars, histVars>>

NextGrid ==
    \/ \E direction \in Directions : GridCall(direction)
    \/ \E k \in GridKwMenu : GridConfigUpdate(k)

SpecGrid == InitGrid /\ [][NextGrid]_vars

(* C7: create_grid with a direction other than 'forward' or 'backward'
   raises GridGenerationError without entering _create_grid, and the
   generator's configuration and state are what they were before the call *)
C7_InvalidDirection ==
    (gret.n > 0 /\ gret.direction \notin {"forward", "backward"}) =>
        /\ ~gret.ret.ok
        /\ gret.ret.kind = "GridGenerationError"
        /\ ~gret.built
        /\ gcalls = gret.runsBefore
        /\ gret.cfgAfter = gret.cfg

(* C7 witness: 'sideways' was asked of a generator that had built a grid *)
C7_Witness ==
    /\ gret.n > 1
    /\ gret.direction = "sideways"
    /\ gprev.built
    /\ gprev.ret.ok
    /\ ~gret.ret.ok

(* C8: a create_grid call leaves the configuration as it was, and two
   consecutive calls for the same direction with no configuration change in
   between return or raise the same thing *)
C8_GridPure ==
    /\ gret.n > 0 => gret.cfgAfter = gret.cfg
    /\ (gret.n > 1 /\ gprev.direction = gret.direction /\ gret.cfg = gprev.cfgAfter)
          => gret.ret = gprev.ret

(* C8 witness: two consecutive successful forward calls on a configuration
   that is not the default one *)
C8_Witness ==
    /\ gret.n > 1
    /\ gret.direction = "forward"
    /\ gprev.direction = "forward"
    /\ gret.cfg = gprev.cfgAfter
    /\ gret.cfg.fov_deg = Num(120000)
    /\ gret.ret.ok
    /\ gprev.ret.ok

----------------------------------------------------------------------------
(* Direct calls of BaseInterpolation.interpolate *)

(* np.ones((2, 2, C), dtype=np.uint8) * 255 *)
ImgWhite ==
    [isArray |-> TRUE, ndim |-> 3, dtype |-> "uint8",
     px |-> [i \in 1..2 |-> [j \in 1..2 |-> [c \in 1..NumChan |-> 255]]]]

InterpImages == {ImgWhite, ImgColor, ImgGray, NotAnImage}

(* 2 x 2 maps: the maps of test_base_interpolation_apply_mask, maps between
   pixel centres, and maps that leave the image *)
MapsDiagonal ==
    [map_x |-> <<<<Rat(0, 1), Rat(1, 1)>>, <<Rat(0, 1), Rat(1, 1)>>>>,
     map_y |-> <<<<Rat(0, 1), Rat(1, 1)>>, <<Rat(0, 1), Rat(1, 1)>>>>]
MapsBetween ==
    [map_x |-> <<<<Rat(1, 2), Rat(1, 1)>>, <<Rat(1, 4), Rat(3, 2)>>>>,
     map_y |-> <<<<Rat(0, 1), Rat(1, 2)>>, <<Rat(1, 2), Rat(1, 1)>>>>]
MapsOutside ==
    [map_x |-> <<<<Rat(-2, 1), Rat(0, 1)>>, <<Rat(1, 1), Rat(7, 1)>>>>,
     map_y |-> <<<<Rat(0, 1), Rat(0, 1)>>, <<Rat(1, 1), Rat(1, 1)>>>>]
InterpMaps == {MapsDiagonal, MapsBetween, MapsOutside}

(* the mask argument: None, every 2 x 2 mask, and a mask of another shape *)
NoMask == [given |-> FALSE, m |-> <<>>]
InterpMasks ==
    {NoMask}
    \cup {[given |-> TRUE, m |-> <<<<a, b>>, <<c, d>>>>] : a, b, c, d \in BOOLEAN}
    \cup {[given |-> TRUE, m |-> <<<<TRUE, FALSE>>>>]}

InitInterp ==
    /\ ProcIdle
    /\ strategy = "gnomonic"
    /\ GridIdle
    /\ InterpIdle
    /\ TransIdle
    /\ StratIdle
    /\ ConfigIdle
    /\ RegistryIdle
    /\ HistIdle

(* interpolation.interpolate(input_img, map_x, map_y, mask) *)
InterpCall(im, m, mk) ==
    /\ icall' = [n |-> 1, img |-> im, map_x |-> m.map_x, map_y |-> m.map_y,
                 hasMask |-> mk.given, mask |-> mk.m]
    /\ iret' = interpolate(im, m.map_x, m.map_y, mk.given, mk.m)
    /\ UNCHANGED <<procVars, gridVars, transVars, stratVars, cfgVars, regVars, histVars>>

NextInterp ==
    \E im \in InterpImages, m \in InterpMaps, mk \in InterpMasks : InterpCall(im, m, mk)

SpecInterp == InitInterp /\ [][NextInterp]_vars

(* the call is one interpolate serves: an 8-bit image; with a mask, a
   multi-channel image and a mask of the maps' shape *)
InterpServed ==
    /\ icall.n > 0
    /\ icall.img.isArray
    /\ icall.hasMask => (icall.img.ndim = 3 /\ Shape(icall.mask) = Shape(icall.map_x))

(* C9: interpolate with a mask returns, at every pixel (i, j) and channel,
   the resampled value where mask[i, j] is true and 0 where it is false;
   without a mask it returns the resampled values; the all-255 2 x 2 image
   with mask [[1,0],[1,0]] gives [[255,0],[255,0]] in every channel *)
C9_MaskZeroes ==
    /\ InterpServed =>
          /\ iret.ok
          /\ Shape(iret.px) = Shape(icall.map_x)
          /\ \A i \in 1..Len(iret.px), j \in 1..Len(iret.px[1]) :
                \A c \in 1..Len(iret.px[i][j]) :
                    iret.px[i][j][c] =
                        IF icall.hasMask /\ ~icall.mask[i][j] THEN 0
                        ELSE Sample(icall.img, icall.map_x[i][j], icall.map_y[i][j], c)
    /\ (/\ icall.n > 0
        /\ icall.img = ImgWhite
        /\ icall.map_x = MapsDiagonal.map_x
        /\ icall.map_y = MapsDiagonal.map_y
        /\ icall.hasMask
        /\ icall.mask = <<<<TRUE, FALSE>>, <<TRUE, FALSE>>>>)
          => (/\ iret.ok
              /\ iret.px = [i \in 1..2 |-> [j \in 1..2 |-> [c \in 1..NumChan |->
                               IF j = 1 THEN 255 ELSE 0]]])

(* C9 witness: a masked call on the patterned image that kept a non-zero
   pixel and zeroed a pixel that resampled to a non-zero value *)
C9_Witness ==
    /\ InterpServed
    /\ icall.hasMask
    /\ icall.img = ImgColor
    /\ iret.ok
    /\ \E i \in 1..2, j \in 1..2 : icall.mask[i][j] /\ iret.px[i][j][1] # 0
    /\ \E i \in 1..2, j \in 1..2 :
          /\ ~icall.mask[i][j]
          /\ iret.px[i][j][1] = 0
          /\ Sample(icall.img, icall.map_x[i][j], icall.map_y[i][j], 1) # 0

----------------------------------------------------------------------------
(* The spherical-to-image transformers of the projection families, called
   directly on one point.  cfg is [lon_min, lon_max, lat_min, lat_max] of
   the family's configuration, shape is img.shape. *)

(* default latitude bounds of the Mercator and oblique Mercator configurations *)
merc_lat_min == -85000
merc_lat_max == 85000

(* 1000 * ln(tan(pi/4 + lat/2)) on the latitudes the calls use *)
LogTan(lat) ==
    CASE lat = 0 -> 0
      [] lat = 45000 -> 881
      [] lat = -45000 -> -881
      [] lat = 85000 -> 3131
      [] lat = -85000 -> -3131

LinearX(lon, cfg, W) == Rat((lon - cfg.lon_min) * (W - 1), cfg.lon_max - cfg.lon_min)
LinearY(lat, cfg, H) == Rat((cfg.lat_max - lat) * (H - 1), cfg.lat_max - cfg.lat_min)

(* base CoordinateTransformer.latlon_to_image_coords: H, W = shape[:2] *)
BaseLatLon(lat, lon, cfg, shape) ==
    IF Len(shape) < 2 THEN Raise("TransformationError", "none")
    ELSE [ok |-> TRUE, map_x |-> LinearX(lon, cfg, shape[2]),
          map_y |-> LinearY(lat, cfg, shape[1])]

(* GnomonicTransformer.spherical_to_image_coords: H, W = shape inside the
   try block; map_y = (lat - lat_max) / (lat_min - lat_max) * (H - 1) *)
GnomonicSpherical(lat, lon, cfg, shape) ==
    IF Len(shape) # 2 THEN Raise("TransformationError", "ValueError")
    ELSE [ok |-> TRUE, map_x |-> LinearX(lon, cfg, shape[2]),
          map_y |-> Rat((lat - cfg.lat_max) * (shape[1] - 1), cfg.lat_min - cfg.lat_max)]

(* StereographicTransformer.spherical_to_image_coords: H, W = shape outside
   any try block, then lon > 180 becomes 180 - lon and lat > 90 becomes
   90 - lat before the linear formulas *)
StereographicSpherical(lat, lon, cfg, shape) ==
    IF Len(shape) # 2 THEN Raise("ValueError", "none")
    ELSE LET lo == IF lon > 180000 THEN 180000 - lon ELSE lon
             la == IF lat > 90000 THEN 90000 - lat ELSE lat
         IN [ok |-> TRUE, map_x |-> LinearX(lo, cfg, shape[2]),
             map_y |-> LinearY(la, cfg, shape[1])]

(* MercatorTransformer.latlon_to_image_coords: H, W = shape inside the try
   block; map_y is the log-tan of lat rescaled from lat_min upwards *)
MercatorLatLon(lat, lon, cfg, shape) ==
    IF Len(shape) # 2 THEN Raise("TransformationError", "ValueError")
    ELSE [ok |-> TRUE, map_x |-> LinearX(lon, cfg, shape[2]),
          map_y |-> Rat((LogTan(lat) - LogTan(cfg.lat_min)) * (shape[1] - 1),
                        LogTan(cfg.lat_max) - LogTan(cfg.lat_min))]

(* ObliqueMercatorTransformer.spherical_to_image_coords: H, W = shape[:2] *)
ObliqueSpherical(lat, lon, cfg, shape) ==
    [ok |-> TRUE, map_x |-> LinearX(lon, cfg, shape[2]),
     map_y |-> LinearY(lat, cfg, shape[1])]

Families == {"base", "gnomonic", "stereographic", "mercator", "oblique_mercator"}

FamilyConfig(fam, lmin, lmax) ==
    IF fam \in {"mercator", "oblique_mercator"}
    THEN [lon_min |-> lmin, lon_max |-> lmax, lat_min |-> merc_lat_min,
          lat_max |-> merc_lat_max]
    ELSE [lon_min |-> lmin, lon_max |-> lmax, lat_min |-> lat_min, lat_max |-> lat_max]

SphericalToImage(fam, lat, lon, cfg, shape) ==
    CASE fam = "base" -> BaseLatLon(lat, lon, cfg, shape)
      [] fam = "gnomonic" -> GnomonicSpherical(lat, lon, cfg, shape)
      [] fam = "stereographic" -> StereographicSpherical(lat, lon, cfg, shape)
      [] fam = "mercator" -> MercatorLatLon(lat, lon, cfg, shape)
      [] fam = "oblique_mercator" -> ObliqueSpherical(lat, lon, cfg, shape)

(* longitude bounds: the defaults, and those of test_latlon_to_image_coords *)
LonBounds == {<<-180000, 180000>>, <<0, 360000>>}
ImageShapes == {<<ImgH, ImgW>>, <<ImgH, ImgW, NumChan>>}

InitTrans ==
    /\ ProcIdle
    /\ strategy = "gnomonic"
    /\ GridIdle
    /\ InterpIdle
    /\ TransIdle
    /\ StratIdle
    /\ ConfigIdle
    /\ RegistryIdle
    /\ HistIdle

(* transformer call on the point (lat, lon), lat at a fraction of the
   latitude range and lon at a fraction of the longitude range *)
TransCall(fam, lb, lat, lon, shape) ==
    /\ LET cfg == FamilyConfig(fam, lb[1], lb[2])
       IN /\ lat \in {cfg.lat_min, -45000, 0, 45000, cfg.lat_max}
          /\ lon \in {cfg.lon_min, (cfg.lon_min + cfg.lon_max) \div 2, cfg.lon_max}
          /\ tcall' = [n |-> 1, family |-> fam, cfg |-> cfg, lat |-> lat, lon |-> lon,
                       shape |-> shape]
          /\ tret' = SphericalToImage(fam, lat, lon, cfg, shape)
    /\ UNCHANGED <<procVars, gridVars, interpVars, stratVars, cfgVars, regVars, histVars>>

NextTrans ==
    \E fam \in Families, lb \in LonBounds, shape \in ImageShapes :
        \E lat \in {-90000, -85000, -45000, 0, 45000, 85000, 90000},
           lon \in {-180000, 0, 180000, 360000} :
            TransCall(fam, lb, lat, lon, shape)

SpecTrans == InitTrans /\ [][NextTrans]_vars

(* C10 as stated: for every family and every image shape (H, W, ...) the
   transformer returns map_x = (lon - lon_min)/(lon_max - lon_min)*(W-1) and
   map_y = (lat_max - lat)/(lat_max - lat_min)*(H-1), unrounded *)
C10_LinearEveryFamily ==
    tcall.n > 0 =>
        /\ tret.ok
        /\ tret.map_x = LinearX(tcall.lon, tcall.cfg, tcall.shape[2])
        /\ tret.map_y = LinearY(tcall.lat, tcall.cfg, tcall.shape[1])

----------------------------------------------------------------------------
(* The planar-to-pixel rescaling of backward applied to the forward grid of
   the same configuration *)

ToFl(a) == [i \in 1..Len(a) |-> [j \in 1..Len(a[i]) |-> Fl(a[i][j])]]

PlanarFovs == {60000, 90000, 120000}
PlanarPoints == {2, 3, 5}

InitPlanar ==
    /\ ProcIdle
    /\ strategy = "gnomonic"
    /\ GridIdle
    /\ InterpIdle
    /\ TransIdle
    /\ StratIdle
    /\ ConfigIdle
    /\ RegistryIdle
    /\ HistIdle

(* x_grid, y_grid = grid_generation.create_grid('forward') followed by
   CoordinateTransformer.xy_to_image_coords(x_grid, y_grid, config), looked
   at on grid point (i, j) *)
PlanarCall(fov, xp, yp, i, j) ==
    /\ i \in 1..yp
    /\ j \in 1..xp
    /\ LET cfg == [DefaultParams EXCEPT !.fov_deg = Num(fov), !.x_points = Num(xp),
                                        !.y_points = Num(yp)]
           g == create_grid(cfg, "forward").ret
           m == xy_to_image_coords(ToFl(g.a), ToFl(g.b), cfg)
       IN /\ tcall' = [n |-> 1, cfg |-> cfg, i |-> i, j |-> j,
                       x |-> g.a[i][j], y |-> g.b[i][j]]
          /\ tret' = [ok |-> m.ok, map_x |-> m.map_x[i][j], map_y |-> m.map_y[i][j]]
    /\ UNCHANGED <<procVars, gridVars, interpVars, stratVars, cfgVars, regVars, histVars>>

NextPlanar ==
    \E fov \in PlanarFovs, xp \in PlanarPoints, yp \in PlanarPoints :
        \E i \in 1..yp, j \in 1..xp : PlanarCall(fov, xp, yp, i, j)

SpecPlanar == InitPlanar /\ [][NextPlanar]_vars

(* C11 as stated: every forward-grid coordinate lies inside [x_min, x_max] x
   [y_min, y_max] of the rescaling, and the first and last columns (rows) of
   the grid land on pixel 0 and pixel x_points-1 (y_points-1) *)
C11_SameExtent ==
    tcall.n > 0 =>
        /\ x_min <= tcall.x /\ tcall.x <= x_max
        /\ y_min <= tcall.y /\ tcall.y <= y_max
        /\ tcall.j = 1 => tret.map_x = Rat(0, 1)
        /\ tcall.j = tcall.cfg.x_points.v => tret.map_x = Rat(tcall.cfg.x_points.v - 1, 1)
        /\ tcall.i \in {1, tcall.cfg.y_points.v} =>
              tret.map_y \in {Rat(0, 1), Rat(tcall.cfg.y_points.v - 1, 1)}

----------------------------------------------------------------------------
(* Spherical-to-image calls with angles beyond the nominal bounds *)

FoldFamilies == {"base", "gnomonic", "stereographic", "oblique_mercator"}
FoldLats == {-45000, 0, 45000, 85000, 100000, 135000}
FoldLons == {-180000, -90000, 0, 90000, 180000, 190000, 270000}

InitFold ==
    /\ ProcIdle
    /\ strategy = "gnomonic"
    /\ GridIdle
    /\ InterpIdle
    /\ TransIdle
    /\ StratIdle
    /\ ConfigIdle
    /\ RegistryIdle
    /\ HistIdle

(* the family's transformer on (lat, lon) with the default longitude bounds
   and an (H, W) shape *)
FoldCall(fam, lat, lon) ==
    /\ LET cfg == FamilyConfig(fam, -180000, lon_max)
       IN /\ tcall' = [n |-> 1, family |-> fam, cfg |-> cfg, lat |-> lat, lon |-> lon,
                       shape |-> <<ImgH, ImgW>>]
          /\ tret' = SphericalToImage(fam, lat, lon, cfg, <<ImgH, ImgW>>)
    /\ UNCHANGED <<procVars, gridVars, interpVars, stratVars, cfgVars, regVars, histVars>>

NextFold ==
    \E fam \in FoldFamilies, lat \in FoldLats, lon \in FoldLons : FoldCall(fam, lat, lon)

SpecFold == InitFold /\ [][NextFold]_vars

(* reflection at the bound: v > bound becomes bound - (v - bound) *)
ReflectAt(v, bound) == IF v > bound THEN bound - (v - bound) ELSE v

(* C12 as stated: the value that enters the linear rescaling is the
   longitude reflected at 180 and the latitude reflected at 90, so the
   pixel coordinates are those of the reflected angles and a longitude up to
   360 lands inside the image width *)
C12_ReflectedAtBound ==
    tcall.n > 0 =>
        /\ tret.ok
        /\ tret.map_x = LinearX(ReflectAt(tcall.lon, 180000), tcall.cfg, tcall.shape[2])
        /\ tret.map_y = LinearY(ReflectAt(tcall.lat, 90000), tcall.cfg, tcall.shape[1])
        /\ tret.map_x.num >= 0
        /\ tret.map_x.num <= (tcall.shape[2] - 1) * tret.map_x.den

----------------------------------------------------------------------------
(* Configuration classes of the families: construction validates through
   the pydantic model of the family, update copies the model with the new
   values.  A configuration object is [family, fov_deg, R, scaling_factor];
   a field the family's model does not declare stays Absent. *)

ConfigFamilies == {"gnomonic", "mercator", "stereographic", "oblique_mercator"}

(* the fields among fov_deg, R, scaling_factor the family's model declares *)
ModelFields(fam) ==
    IF fam = "stereographic" THEN {"R", "scaling_factor"} ELSE {"R", "fov_deg"}

(* the validators of the family's model on numeric values *)
ModelValid(fam, kwargs) ==
    CASE fam = "gnomonic" -> 0 < kwargs.fov_deg.v /\ kwargs.fov_deg.v < 180000
      [] fam = "mercator" -> TRUE
      [] fam = "stereographic" -> kwargs.R.v > 0 /\ kwargs.scaling_factor.v > 0
      [] fam = "oblique_mercator" -> 0 < kwargs.fov_deg.v /\ kwargs.fov_deg.v <= 180000

(* what __init__ raises when the model rejects the arguments *)
ConfigInitError(fam) ==
    IF fam = "mercator" THEN "ValueError" ELSE "ConfigurationError"

(* XConfig(fov_deg=..., R=..., scaling_factor=...): a value of the wrong
   type for a declared field is rejected by the model, an argument the model
   does not declare is ignored *)
ConstructConfig(fam, kwargs) ==
    IF \E f \in ModelFields(fam) : ~IsNum(kwargs[f])
    THEN Raise(ConfigInitError(fam), "ValidationError")
    ELSE IF ~ModelValid(fam, kwargs)
    THEN Raise(ConfigInitError(fam), "ValidationError")
    ELSE [ok |-> TRUE,
          obj |-> [family |-> fam,
                   fov_deg |-> IF "fov_deg" \in ModelFields(fam) THEN kwargs.fov_deg
                               ELSE Absent,
                   R |-> kwargs.R,
                   scaling_factor |-> IF "scaling_factor" \in ModelFields(fam)
                                      THEN kwargs.scaling_factor ELSE Absent]]

(* config.update(...): self.config = self.config.copy(update=kwargs); copy
   does not run the validators *)
UpdateConfig(obj, kwargs) ==
    [ok |-> TRUE,
     obj |-> [f \in DOMAIN obj |->
                 IF f \in DOMAIN kwargs /\ kwargs[f].t # "absent" THEN kwargs[f]
                 ELSE obj[f]]]

ConfigFovs == {Num(-10000), Num(90000), Num(180000), Num(200000), Str}
ConfigRadii == {Num(-1000), Num(1000)}
ConfigScalings == {Num(0), Num(1000)}

NoConfigKw == [fov_deg |-> Absent, R |-> Absent, scaling_factor |-> Absent]
ConfigUpdates ==
    { [NoConfigKw EXCEPT !.fov_deg = Num(-10000)],
      [NoConfigKw EXCEPT !.fov_deg = Num(120000)],
      [NoConfigKw EXCEPT !.R = Num(-1000)],
      [NoConfigKw EXCEPT !.scaling_factor = Num(0)] }

InitConfig ==
    /\ ProcIdle
    /\ strategy = "gnomonic"
    /\ GridIdle
    /\ InterpIdle
    /\ TransIdle
    /\ StratIdle
    /\ ConfigIdle
    /\ RegistryIdle
    /\ HistIdle

(* config = XConfig(...): the name is bound only when __init__ returns *)
ConfigConstruct(fam, kwargs) ==
    /\ LET r == ConstructConfig(fam, kwargs)
       IN /\ cobj' = IF r.ok THEN r.obj ELSE cobj
          /\ ccall' = [n |-> 1, op |-> "construct", family |-> fam, kwargs |-> kwargs,
                       before |-> cobj, ret |-> IF r.ok THEN [ok |-> TRUE] ELSE r]
    /\ UNCHANGED <<procVars, gridVars, interpVars, transVars, stratVars, regVars, histVars>>

(* config.update(...) on the object constructed last *)
ConfigUpdate(kwargs) ==
    /\ cobj # NoCall
    /\ LET r == UpdateConfig(cobj, kwargs)
       IN /\ cobj' = IF r.ok THEN r.obj ELSE cobj
          /\ ccall' = [n |-> 1, op |-> "update", family |-> cobj.family,
                       kwargs |-> kwargs, before |-> cobj,
                       ret |-> IF r.ok THEN [ok |-> TRUE] ELSE r]
    /\ UNCHANGED <<procVars, gridVars, interpVars, transVars, stratVars, regVars, histVars>>

NextConfig ==
    \/ \E fam \in ConfigFamilies, f \in ConfigFovs, r \in ConfigRadii, s \in ConfigScalings :
          ConfigConstruct(fam, [fov_deg |-> f, R |-> r, scaling_factor |-> s])
    \/ \E k \in ConfigUpdates : ConfigUpdate(k)

SpecConfig == InitConfig /\ [][NextConfig]_vars

(* the range the specification gives: fov_deg in (0, 180], R > 0 and
   scaling factor > 0; an argument not passed is not out of range *)
InRange(kwargs) ==
    /\ kwargs.fov_deg.t # "absent" =>
          (IsNum(kwargs.fov_deg) /\ 0 < kwargs.fov_deg.v /\ kwargs.fov_deg.v <= 180000)
    /\ kwargs.R.t # "absent" => (IsNum(kwargs.R) /\ kwargs.R.v > 0)
    /\ kwargs.scaling_factor.t # "absent" =>
          (IsNum(kwargs.scaling_factor) /\ kwargs.scaling_factor.v > 0)

(* C13 as stated: for every family construction succeeds exactly when
   fov_deg is in (0, 180], R > 0 and the scaling factor is > 0, and a
   rejected construction raises ConfigurationError and binds no object *)
C13_ConstructionValidates ==
    (ccall.n > 0 /\ ccall.op = "construct") =>
        /\ ccall.ret.ok <=> InRange(ccall.kwargs)
        /\ ~ccall.ret.ok => (ccall.ret.kind = "ConfigurationError" /\ cobj = ccall.before)

(* C14 as stated: an update with an out-of-range value raises
   ConfigurationError and leaves the configuration unchanged, so the
   configuration never holds an out-of-range value *)
C14_UpdateValidates ==
    (ccall.n > 0 /\ ccall.op = "update" /\ ~InRange(ccall.kwargs)) =>
        /\ ~ccall.ret.ok
        /\ ccall.ret.kind = "ConfigurationError"
        /\ cobj = ccall.before

----------------------------------------------------------------------------
(* Direct calls of the projection strategies on one point *)

(* positional arguments (first, second) of MercatorProjectionStrategy.backward:
   x = 1 * radians(first), y = 1 * log(tan(pi/4 + radians(second)/2)), mask
   all true.  Values times 1000; in float64 tan(pi/2) is 1.6e16, whose log
   is 37.332, tan(0) is 0, whose log is -inf, and the log of a negative
   tangent is NaN. *)
RadK(d) == Sign(d) * (((Abs(d) \div 1000) * 3142) \div 180)

MercLogTan(d) ==
    CASE d = 90000 -> [nan |-> FALSE, inf |-> FALSE, v |-> 37332]
      [] d = -90000 -> [nan |-> FALSE, inf |-> TRUE, v |-> 0]
      [] d > 90000 \/ d < -90000 -> [nan |-> TRUE, inf |-> FALSE, v |-> 0]
      [] OTHER -> [nan |-> FALSE, inf |-> FALSE, v |-> LogTan(d)]

MercatorBackward(cfg, first, second) ==
    [ok |-> TRUE, x |-> 1 * RadK(first), y |-> MercLogTan(second), mask |-> TRUE]

PlanarVals == {-1732, -1000, 0, 1000, 1732}
SphereLats == {-90000, -45000, 0, 45000, 90000}
SphereLons == {-180000, -135000, -90000, -45000, 0, 45000, 90000, 135000, 180000}
MercLats == {-90000, -85000, -45000, 0, 45000, 85000, 90000}
MercRadii == {Unit, 2 * Unit}

One(v) == <<<<v>>>>

InitStrat ==
    /\ ProcIdle
    /\ strategy = "gnomonic"
    /\ GridIdle
    /\ InterpIdle
    /\ TransIdle
    /\ StratIdle
    /\ ConfigIdle
    /\ RegistryIdle
    /\ HistIdle

(* lat, lon = GnomonicProjectionStrategy(config).forward(x, y) *)
GnomonicForwardCall(x, y) ==
    /\ LET r == StrategyForward(DefaultParams, One(x), One(y))
       IN /\ scall' = [n |-> 1, family |-> "gnomonic", op |-> "forward", x |-> x, y |-> y]
          /\ sret' = [ok |-> r.ok, lat |-> r.a[1][1], lon |-> r.b[1][1]]
    /\ UNCHANGED <<procVars, gridVars, interpVars, transVars, cfgVars, regVars, histVars>>

(* x, y, mask = GnomonicProjectionStrategy(config).backward(lat, lon) *)
GnomonicBackwardCall(lat, lon) ==
    /\ LET r == StrategyBackward("gnomonic", DefaultParams, One(lat), One(lon))
       IN /\ scall' = [n |-> 1, family |-> "gnomonic", op |-> "backward",
                       lat |-> lat, lon |-> lon]
          /\ sret' = [ok |-> r.ok, x |-> r.a[1][1], y |-> r.b[1][1], mask |-> r.mask[1][1]]
    /\ UNCHANGED <<procVars, gridVars, interpVars, transVars, cfgVars, regVars, histVars>>

(* backward applied to what forward returned for (x, y), away from the centre *)
GnomonicRoundTrip(x, y) ==
    /\ ~(x = 0 /\ y = 0)
    /\ LET f == StrategyForward(DefaultParams, One(x), One(y))
           r == StrategyBackward("gnomonic", DefaultParams,
                                 One(f.a[1][1].v), One(f.b[1][1].v))
       IN /\ scall' = [n |-> 1, family |-> "gnomonic", op |-> "roundtrip", x |-> x, y |-> y]
          /\ sret' = [ok |-> r.ok, x |-> r.a[1][1], y |-> r.b[1][1], mask |-> r.mask[1][1]]
    /\ UNCHANGED <<procVars, gridVars, interpVars, transVars, cfgVars, regVars, histVars>>

(* MercatorProjectionStrategy(config).backward called with the latitude
   first, as ProjectionProcessor.backward does, or with the longitude first,
   as the parameter names x, y suggest *)
MercatorBackwardCall(radius, lat, lon, latFirst) ==
    /\ LET cfg == [R |-> radius]
           r == IF latFirst THEN MercatorBackward(cfg, lat, lon)
                            ELSE MercatorBackward(cfg, lon, lat)
       IN /\ scall' = [n |-> 1, family |-> "mercator", op |-> "backward", R |-> radius,
                       lat |-> lat, lon |-> lon, latFirst |-> latFirst]
          /\ sret' = r
    /\ UNCHANGED <<procVars, gridVars, interpVars, transVars, cfgVars, regVars, histVars>>

NextStrat ==
    \/ \E x \in PlanarVals, y \in PlanarVals : GnomonicForwardCall(x, y)
    \/ \E lat \in SphereLats, lon \in SphereLons : GnomonicBackwardCall(lat, lon)
    \/ \E x \in PlanarVals, y \in PlanarVals : GnomonicRoundTrip(x, y)
    \/ \E radius \in MercRadii, lat \in MercLats, lon \in SphereLons, latFirst \in BOOLEAN :
          MercatorBackwardCall(radius, lat, lon, latFirst)

SpecStrat == InitStrat /\ [][NextStrat]_vars

IsCall(fam, op) == scall.n > 0 /\ scall.family = fam /\ scall.op = op

(* C15 as stated: forward maps the planar centre (0, 0) to the projection
   centre (phi1_deg, lam0_deg) = (0, 0) and returns no NaN there *)
C15_CentreToCentre ==
    (IsCall("gnomonic", "forward") /\ scall.x = 0 /\ scall.y = 0) =>
        /\ sret.ok
        /\ ~sret.lat.nan /\ sret.lat.v = 0
        /\ ~sret.lon.nan /\ sret.lon.v = lam0_deg

(* C16: backward's mask is False at every point farther than 90 degrees
   from the projection centre and True at every point nearer than 90
   degrees; the cosine of the distance from the centre (0, 0) is
   cos(lat) * cos(lon) *)
C16_MaskIsHemisphere ==
    IsCall("gnomonic", "backward") =>
        /\ sret.ok
        /\ CosK(scall.lat) * CosK(scall.lon) < 0 => ~sret.mask
        /\ CosK(scall.lat) * CosK(scall.lon) > 0 => sret.mask

(* C16 witness: a point 135 degrees from the centre got mask False *)
C16_Witness ==
    /\ IsCall("gnomonic", "backward")
    /\ scall.lat = 0
    /\ scall.lon = 135000
    /\ ~sret.mask

(* tolerance of the round trip, in 1/1000 of a planar unit *)
Tol == Unit \div 200

(* C17 as stated: away from the centre, backward of forward(x, y) returns
   (x, y) again, same sign and magnitude within tolerance, with mask True *)
C17_RoundTrip ==
    IsCall("gnomonic", "roundtrip") =>
        /\ sret.ok
        /\ sret.mask
        /\ ~sret.x.nan /\ Abs(sret.x.v - scall.x) <= Tol
        /\ ~sret.y.nan /\ Abs(sret.y.v - scall.y) <= Tol

(* C18 as stated: called with the latitude first, Mercator backward
   returns x = R * lon(rad), from the longitude only, and
   y = R * ln(tan(pi/4 + lat/2)) *)
C18_MercatorXFromLon ==
    (IsCall("mercator", "backward") /\ scall.latFirst /\ scall.lat \in {-45000, 0, 45000}) =>
        /\ sret.x = (scall.R * RadK(scall.lon)) \div Unit
        /\ sret.y = [nan |-> FALSE, inf |-> FALSE,
                      v |-> (scall.R * LogTan(scall.lat)) \div Unit]

(* C19 as stated: the angle that reaches the log-tan formula is clamped to
   +-85 degrees, so y is finite and no larger than the value at 85 *)
C19_LatitudeClamped ==
    IsCall("mercator", "backward") =>
        /\ ~sret.y.nan
        /\ ~sret.y.inf
        /\ Abs(sret.y.v) <= LogTan(merc_lat_max)

----------------------------------------------------------------------------
(* ProjectionRegistry: register, get_projection, list_projections.  The
   registry is a dict: a sequence of (name, components) items in insertion
   order, each name at most once. *)

RequiredKeys == {"config", "grid_generation", "projection_strategy"}
ComponentKeys == RequiredKeys \cup {"interpolation"}

(* a components dict: each key is absent, a class, or a value that is not
   a class (the string "NotAClass" of the tests).  Two config classes are
   told apart: "class" is the GnomonicConfig of projection/gnomonic, whose
   instances hold a pydantic model in self.config, "dictclass" is a
   class whose instances hold a params dict (projection_deprecated). *)
ComponentKinds == {"absent", "class", "str"}
IsClass(v) == v \in {"class", "dictclass"}
ComponentDicts ==
    { c \in [ComponentKeys -> ComponentKinds \cup {"dictclass"}] :
         \A k \in ComponentKeys \ {"config"} : c[k] # "dictclass" }
RegistryNames == {"gnomonic", "test_projection"}

RegisteredNames(reg) == { reg[i].name : i \in DOMAIN reg }
ComponentsOf(reg, name) ==
    reg[CHOOSE i \in DOMAIN reg : reg[i].name = name].components

(* the exception register raises for the components, "none" if it stores *)
RegisterRaises(components) ==
    IF \E k \in RequiredKeys : components[k] = "absent" THEN "ValueError"
    ELSE IF components["interpolation"] # "absent" /\ ~IsClass(components["interpolation"])
         THEN "TypeError"
    ELSE IF \E k \in RequiredKeys : ~IsClass(components[k]) THEN "TypeError"
    ELSE "none"

(* variant: a name registered again is appended a second time *)
DictSetAppend(reg, name, components) ==
    Append(reg, [name |-> name, components |-> components])

(* cls._registry[name] = components *)
DictSet(reg, name, components) ==
    IF name \in RegisteredNames(reg)
    THEN [i \in DOMAIN reg |->
             IF reg[i].name = name THEN [name |-> name, components |-> components]
             ELSE reg[i]]
    ELSE Append(reg, [name |-> name, components |-> components])

RegisterStore(reg, name, components) ==
    IF RegisterRaises(components) = "none" THEN DictSet(reg, name, components) ELSE reg

(* keyword arguments of get_projection, passed to the config class *)
GetKwargs ==
    { [fov_deg |-> Num(90000), R |-> Num(1000), scaling_factor |-> Num(1000)],
      [fov_deg |-> Num(200000), R |-> Num(1000), scaling_factor |-> Num(1000)] }

ConfigMethods == {"create_projection", "create_grid_generation", "create_interpolation"}

(* get_projection(name, return_processor, kwargs): the exception raised
   ("none" if it returns) and the type of the object returned *)
GetProjection(reg, name, return_processor, kwargs) ==
    IF name \notin RegisteredNames(reg)
    THEN [raised |-> "ValueError", type |-> "none", methods |-> {}]
    ELSE LET components == ComponentsOf(reg, name)
         IN IF components["config"] = "class" /\ ~ConstructConfig("gnomonic", kwargs).ok
            THEN [raised |-> "RuntimeError", type |-> "none", methods |-> {}]
            ELSE IF components["config"] = "class"
            THEN [raised |-> "ValueError", type |-> "none", methods |-> {}]
            ELSE [raised |-> "none",
                  type |-> IF return_processor THEN "ProjectionProcessor"
                           ELSE "BaseProjectionConfig",
                  methods |-> ConfigMethods]

(* list(cls._registry.keys()) *)
ListProjections(reg) == [i \in DOMAIN reg |-> reg[i].name]

InitRegistry ==
    /\ ProcIdle
    /\ strategy = "gnomonic"
    /\ GridIdle
    /\ InterpIdle
    /\ TransIdle
    /\ StratIdle
    /\ ConfigIdle
    /\ RegistryIdle
    /\ HistIdle

Register(name, components) ==
    /\ registry' = RegisterStore(registry, name, components)
    /\ rcall' = [n |-> 1, op |-> "register", name |-> name, components |-> components,
                 before |-> registry, raised |-> RegisterRaises(components)]
    /\ UNCHANGED <<procVars, gridVars, interpVars, transVars, stratVars, cfgVars, histVars>>

GetProjectionCall(name, return_processor, kwargs) ==
    /\ LET r == GetProjection(registry, name, return_processor, kwargs)
       IN rcall' = [n |-> 1, op |-> "get_projection", name |-> name,
                    return_processor |-> return_processor, kwargs |-> kwargs,
                    before |-> registry, raised |-> r.raised,
                    type |-> r.type, methods |-> r.methods]
    /\ UNCHANGED <<registry, procVars, gridVars, interpVars, transVars, stratVars, cfgVars, histVars>>

ListProjectionsCall ==
    /\ rcall' = [n |-> 1, op |-> "list_projections", before |-> registry,
                 raised |-> "none", list |-> ListProjections(registry)]
    /\ UNCHANGED <<registry, procVars, gridVars, interpVars, transVars, stratVars, cfgVars, histVars>>

NextRegistry ==
    \/ \E name \in RegistryNames, components \in ComponentDicts : Register(name, components)
    \/ \E name \in RegistryNames, return_processor \in BOOLEAN, kwargs \in GetKwargs :
          GetProjectionCall(name, return_processor, kwargs)
    \/ ListProjectionsCall

SpecRegistry == InitRegistry /\ [][NextRegistry]_vars

IsRegCall(op) == rcall.n > 0 /\ rcall.op = op

(* the case of C20: a required key is missing or a supplied component is
   not a class *)
Rejectable(components) ==
    \/ \E k \in RequiredKeys : components[k] = "absent"
    \/ \E k \in ComponentKeys : components[k] = "str"

(* C20 as stated: register raises RegistrationError when a required
   component is missing or a supplied component is not a class, and the
   registry is left unchanged *)
C20_RaisesRegistrationError ==
    (IsRegCall("register") /\ Rejectable(rcall.components)) =>
        /\ rcall.raised = "RegistrationError"
        /\ registry = rcall.before

(* C21 as stated: get_projection returns for a registered name an object
   with the three create_ methods, a ProjectionProcessor when
   return_processor is true, and raises RegistrationError for a name that
   is not registered *)
C21_GetIffRegistered ==
    IsRegCall("get_projection") =>
        IF rcall.name \in RegisteredNames(rcall.before)
        THEN /\ rcall.raised = "none"
             /\ ConfigMethods \subseteq rcall.methods
             /\ rcall.return_processor => rcall.type = "ProjectionProcessor"
        ELSE rcall.raised = "RegistrationError"

(* the names whose registration succeeded, tracked through the calls: the
   registry holds exactly the names registered before plus the name of a
   register call that did not raise *)
RegisterAddsName ==
    IsRegCall("register") =>
        RegisteredNames(registry) =
            RegisteredNames(rcall.before) \cup
                (IF rcall.raised = "none" THEN {rcall.name} ELSE {})

(* C22: list_projections returns exactly the registered names, each once;
   with n distinct names registered the list has length n *)
C22_ListIsRegisteredNames ==
    /\ RegisterAddsName
    /\ IsRegCall("list_projections") =>
          /\ { rcall.list[i] : i \in DOMAIN rcall.list } = RegisteredNames(registry)
          /\ \A i, j \in DOMAIN rcall.list : rcall.list[i] = rcall.list[j] => i = j
          /\ Len(rcall.list) = Cardinality(RegisteredNames(registry))

(* C22 witness: both names are registered and the list holds the two *)
C22_Witness ==
    /\ IsRegCall("list_projections")
    /\ Len(rcall.list) = Cardinality(RegistryNames)
    /\ RegisteredNames(registry) = RegistryNames

----------------------------------------------------------------------------
(* Claims on the processor calls, checked on Spec *)

(* C23: forward and backward called with an image that is not an array
   raise ValueError, no stage runs, and the call leaves params and
   extra_params as they were, whatever overrides it carried *)
C23_InvalidImageRejected ==
    /\ []((pc = "done" /\ ~img.isArray) =>
             /\ outcome = "error"
             /\ err = [kind |-> "ValueError", cause |-> "none", stage |-> "none"]
             /\ ran = <<>>
             /\ grid = NoGrid
             /\ result = NoImage)
    /\ [][(pc \in {"idle", "done"} /\ ~img'.isArray) =>
             /\ pc' = "done"
             /\ params' = params
             /\ extra_params' = extra_params]_vars

(* C23 witness: a call with a non-array image and a fov_deg override ended
   with ValueError, and params still holds another fov_deg *)
C23_Witness ==
    /\ pc = "done"
    /\ ~img.isArray
    /\ err.kind = "ValueError"
    /\ Given(kw, "fov_deg")
    /\ params.fov_deg # kw.fov_deg

(* C24 as stated, for the interpolator: a direct call of interpolate that
   fails, a mask of another shape included, raises InterpolationError *)
C24_OwnErrorKind ==
    (icall.n > 0 /\ ~iret.ok) => iret.kind = "InterpolationError"

----------------------------------------------------------------------------
(* The grid generator and strategy classes of each family, as the
   processor uses them: grid_generation.create_grid(direction), then
   projection.forward or projection.backward *)

StrategyFamilies == ConfigFamilies \cup {"azimutal_equidistant"}

(* the methods each family's grid class defines besides those it inherits
   from BaseGridGeneration *)
GridMethods(fam) ==
    IF fam = "gnomonic" THEN {"_create_grid"}
    ELSE {"projection_grid", "spherical_grid"}

(* the methods each family's strategy class defines besides those it
   inherits from BaseProjectionStrategy *)
StrategyMethods(fam) ==
    IF fam \in {"gnomonic", "mercator"} THEN {"forward", "backward"}
    ELSE {"from_spherical_to_projection", "from_projection_to_spherical"}

(* BaseGridGeneration.create_grid on the family's grid object: the
   inherited _create_grid raises NotImplementedError, which create_grid
   turns into GridGenerationError *)
FamilyCreateGrid(fam, cfg, direction) ==
    IF direction \notin {"forward", "backward"} THEN Raise("GridGenerationError", "none")
    ELSE IF "_create_grid" \in GridMethods(fam) THEN create_grid(cfg, direction).ret
    ELSE Raise("GridGenerationError", "NotImplementedError")

(* strategy.forward / strategy.backward on arrays: the inherited method of
   BaseProjectionStrategy raises NotImplementedError *)
FamilyStrategy(fam, op) ==
    IF op \in StrategyMethods(fam) THEN [ok |-> TRUE, kind |-> "none", cause |-> "none"]
    ELSE Raise("NotImplementedError", "none")

(* the first two stages of ProjectionProcessor.forward / backward with the
   family's components: what the call raises, if anything (kind raised from
   cause; root is the exception the component started from), and the shape
   of the grid it built *)
FamilyProcess(fam, d, cfg) ==
    LET g == FamilyCreateGrid(fam, cfg, d)
        s == FamilyStrategy(fam, d)
    IN IF ~g.ok
       THEN [ok |-> FALSE, kind |-> StageErrorKind("grid"), cause |-> g.kind,
             root |-> g.cause, stage |-> "grid", shape |-> <<0, 0>>]
       ELSE IF ~s.ok
       THEN [ok |-> FALSE, kind |-> StageErrorKind("project"), cause |-> s.kind,
             root |-> s.kind, stage |-> "project", shape |-> Shape(g.a)]
       ELSE [ok |-> TRUE, kind |-> "none", cause |-> "none", root |-> "none",
             stage |-> "none", shape |-> Shape(g.a)]

InitFamily ==
    /\ ProcIdle
    /\ strategy = "gnomonic"
    /\ GridIdle
    /\ InterpIdle
    /\ TransIdle
    /\ StratIdle
    /\ ConfigIdle
    /\ RegistryIdle
    /\ HistIdle

(* processor.forward(img) / processor.backward(img) on a processor of the
   family, with the grid sizes and field of view of the configuration *)
FamilyProcessCall(fam, d, fov, xp, yp) ==
    /\ LET cfg == [DefaultParams EXCEPT !.fov_deg = Num(fov), !.x_points = Num(xp),
                                        !.y_points = Num(yp)]
       IN /\ scall' = [n |-> 1, family |-> fam, op |-> "process", dir |-> d,
                       fov_deg |-> fov, x_points |-> xp, y_points |-> yp]
          /\ sret' = FamilyProcess(fam, d, cfg)
    /\ UNCHANGED <<procVars, gridVars, interpVars, transVars, cfgVars, regVars, histVars>>

(* strategy.forward(x, y) / strategy.backward(lat, lon) called directly *)
FamilyStrategyCall(fam, op) ==
    /\ scall' = [n |-> 1, family |-> fam, op |-> op]
    /\ sret' = FamilyStrategy(fam, op)
    /\ UNCHANGED <<procVars, gridVars, interpVars, transVars, cfgVars, regVars, histVars>>

NextFamily ==
    \/ \E fam \in ConfigFamilies, d \in {"forward", "backward"}, fov \in PlanarFovs,
          xp \in PlanarPoints, yp \in PlanarPoints : FamilyProcessCall(fam, d, fov, xp, yp)
    \/ \E fam \in StrategyFamilies, op \in {"forward", "backward"} :
          FamilyStrategyCall(fam, op)

SpecFamily == InitFamily /\ [][NextFamily]_vars

(* C25 as stated: for every family create_grid returns a grid pair and
   the strategy implements forward and backward, so no processor call on
   valid inputs fails because a method is unimplemented *)
C25_FamiliesImplemented ==
    scall.n > 0 =>
        /\ sret.ok
        /\ sret.kind # "NotImplementedError"
        /\ scall.op = "process" => sret.root # "NotImplementedError"

----------------------------------------------------------------------------
(* Consecutive calls on one processor: prev keeps the call that ended
   before the current one began *)

RepeatKw ==
    { NoKw,
      [NoKw EXCEPT !.fov_deg = Num(120000)],
      [NoKw EXCEPT !.x_points = Str],
      [NoKw EXCEPT !.return_mask = Bool(TRUE)],
      [NoKw EXCEPT !.return_mask = Bool(TRUE), !.fov_deg = Num(120000)] }
RepeatImages == {ImgColor, ImgGray}

InitRepeat ==
    /\ ProcIdle
    /\ strategy = "gnomonic"
    /\ GridIdle
    /\ InterpIdle
    /\ TransIdle
    /\ StratIdle
    /\ ConfigIdle
    /\ RegistryIdle
    /\ HistIdle

RepeatBegin(d, k, im) ==
    /\ BeginCall(d, k, im)
    /\ prev' = IF pc = "idle" THEN NoCall
               ELSE [n |-> 1, dir |-> dir, kw |-> kw, img |-> img,
                     outcome |-> outcome, err |-> err, result |-> result]
    /\ UNCHANGED <<other, params2>>

NextRepeat ==
    \/ \E d \in {"forward", "backward"}, k \in RepeatKw, im \in RepeatImages :
          RepeatBegin(d, k, im)
    \/ GridStage
    \/ ProjectStage
    \/ TransformStage
    \/ InterpStage
    \/ FinalStage

SpecRepeat == InitRepeat /\ [][NextRepeat]_vars

(* C26: while a call runs its stages, the input image, the processor's
   components, the registry and the configuration are left as they are
   (the configuration changes only when a call merges its overrides); and a
   call without overrides that follows a call without overrides on the same
   image and in the same direction ends the same way with an equal image *)
C26_OnlyOverlayChanges ==
    /\ []((pc = "done" /\ prev.n > 0 /\ kw = NoKw /\ prev.kw = NoKw
           /\ prev.img = img /\ prev.dir = dir) =>
             /\ outcome = prev.outcome
             /\ result = prev.result)
    /\ [][/\ pc \notin {"idle", "done"} =>
                /\ img' = img
                /\ strategy' = strategy
                /\ params' = params
                /\ extra_params' = extra_params
          /\ registry' = registry
          /\ strategy' = strategy
          /\ \A key \in ParamKeys :
                params'[key] # params[key] => Given(kw', key)]_vars

(* C26 witness: a backward call without overrides returned an image, after
   an equal call did, on a configuration an earlier call had changed *)
C26_Witness ==
    /\ pc = "done"
    /\ prev.n > 0
    /\ kw = NoKw
    /\ prev.kw = NoKw
    /\ prev.img = img
    /\ prev.dir = dir
    /\ dir = "backward"
    /\ outcome = "image"
    /\ result # NoImage
    /\ params.fov_deg = Num(120000)

(* C27 as stated: interpolate accepts H x W x C and H x W images, with or
   without a mask; a mask of the maps' shape is never rejected and the
   image returned has the maps' shape in its first two dimensions and the
   source's number of dimensions *)
C27_GrayAndColorAccepted ==
    (/\ icall.n > 0
     /\ icall.img.isArray
     /\ icall.img.dtype = "uint8"
     /\ icall.hasMask => Shape(icall.mask) = Shape(icall.map_x)) =>
        /\ iret.ok
        /\ Shape(iret.px) = Shape(icall.map_x)
        /\ iret.ndim = icall.img.ndim

InRan(step) == \E i \in DOMAIN ran : ran[i] = step

(* C28: a backward call that returned an image applied the mask exactly
   when its own keyword arguments carry a truthy return_mask, whatever
   extra_params holds from earlier calls; without it the image returned is
   the flipped interpolation result, unmasked *)
C28_MaskFromThisCallOnly ==
    BackwardDone =>
        LET asked == kw.return_mask.t # "absent" /\ Truthy(kw.return_mask)
        IN /\ InRan("mask") <=> asked
           /\ ~asked =>
                 result.px = flip(remap(img, maps.map_x, maps.map_y))
           /\ asked =>
                 result.px = flip(ApplyMask(remap(img, maps.map_x, maps.map_y),
                                            coords.mask))

(* C28 witness: a backward call without return_mask, made after a call
   that passed return_mask=True, returned an image the mask would have
   changed *)
C28_Witness ==
    /\ BackwardDone
    /\ ~Given(kw, "return_mask")
    /\ prev.n > 0
    /\ prev.kw.return_mask = Bool(TRUE)
    /\ extra_params.return_mask = Bool(TRUE)
    /\ ~InRan("mask")
    /\ result.px # flip(ApplyMask(remap(img, maps.map_x, maps.map_y), coords.mask))

(* the last call got past the image check and a stage raised *)
StageRaised == pc = "done" /\ outcome = "error" /\ err.stage # "none"

(* C29: after a call that failed in a stage, the overrides it passed are
   still in params and extra_params, and the next call runs with them: a
   key it does not override again keeps the failed call's value, so a
   forward call made after a forward call failed on its x_points override
   fails in the grid stage as well *)
C29_NoRollback ==
    /\ StageRaised =>
          /\ \A key \in ParamKeys : Given(kw, key) => params[key] = kw[key]
          /\ Given(kw, "return_mask") => extra_params.return_mask = kw.return_mask
    /\ (/\ pc # "idle"
        /\ prev.n > 0
        /\ prev.outcome = "error"
        /\ prev.err.stage # "none") =>
          /\ \A key \in ParamKeys :
                (Given(prev.kw, key) /\ ~Given(kw, key)) => params[key] = prev.kw[key]
          /\ (pc = "done" /\ dir = "forward" /\ prev.kw.x_points = Str
              /\ ~Given(kw, "x_points")) =>
                /\ outcome = "error"
                /\ err.stage = "grid"

(* C29 witness: a forward call without overrides failed in the grid stage
   on the x_points a failed call before it had passed *)
C29_Witness ==
    /\ StageRaised
    /\ dir = "forward"
    /\ kw = NoKw
    /\ err.stage = "grid"
    /\ prev.n > 0
    /\ prev.outcome = "error"
    /\ prev.kw.x_points = Str
    /\ params.x_points = Str

----------------------------------------------------------------------------
(* Two calls in progress on one processor, and a second processor.  The
   second call on the shared processor is a forward call followed through
   the two statements that touch the shared configuration: config.update
   of its overrides and create_grid('forward').  A processor from another
   get_projection call has a configuration of its own (params2). *)

RaceKw == { NoKw, [NoKw EXCEPT !.x_points = Num(2)], [NoKw EXCEPT !.x_points = Num(3)] }

(* variant: the second call updates a private copy of the configuration *)
OtherMergeCopy(p, k) == p

(* self.config.update of the second call's kwargs, on the params dict the
   two calls share *)
OtherMerge(p, k) == UpdateParams(p, k)

InitRace ==
    /\ ProcIdle
    /\ strategy = "gnomonic"
    /\ GridIdle
    /\ InterpIdle
    /\ TransIdle
    /\ StratIdle
    /\ ConfigIdle
    /\ RegistryIdle
    /\ HistIdle

(* the first call begins; when the second call stands between its update
   and its grid generation, it has been overtaken *)
RaceBegin(d, k, im) ==
    /\ BeginCall(d, k, im)
    /\ other' = IF other.n = 0 THEN other
                ELSE [other EXCEPT !.at = IF other.pc = "grid" THEN "overtaken"
                                         ELSE "before"]
    /\ UNCHANGED <<prev, params2>>

(* the second call merges its overrides; at records where the first call
   stands at that moment *)
OtherBegin(k) ==
    /\ IF other.n = 0 THEN TRUE ELSE other.pc = "done"
    /\ params' = OtherMerge(params, k)
    /\ other' = [n |-> 1, kw |-> k, pc |-> "grid", at |-> pc, xlen |-> 0]
    /\ UNCHANGED <<extra_params, strategy, pc, dir, kw, img, grid, coords, maps, interp,
                   ran, outcome, err, result, prev, params2,
                   gridVars, interpVars, transVars, stratVars, cfgVars, regVars>>

(* the second call generates its forward grid and goes on with stages that
   write nothing shared *)
OtherGrid ==
    /\ other.n > 0
    /\ other.pc = "grid"
    /\ LET g == create_grid(params, "forward").ret
       IN other' = [other EXCEPT !.pc = "done",
                                 !.xlen = IF g.ok THEN Len(g.a[1]) ELSE 0]
    /\ UNCHANGED <<procVars, prev, params2,
                   gridVars, interpVars, transVars, stratVars, cfgVars, regVars>>

(* a call on the processor of another get_projection call merges its
   overrides into that processor's configuration *)
SecondProcessorUpdate(k) ==
    /\ params2' = UpdateParams(params2, k)
    /\ UNCHANGED <<procVars, prev, other,
                   gridVars, interpVars, transVars, stratVars, cfgVars, regVars>>

NextRace ==
    \/ \E d \in {"forward", "backward"}, k \in RaceKw : RaceBegin(d, k, ImgColor)
    \/ GridStage
    \/ ProjectStage
    \/ TransformStage
    \/ InterpStage
    \/ FinalStage
    \/ \E k \in RaceKw : OtherBegin(k)
    \/ OtherGrid
    \/ \E k \in RaceKw : SecondProcessorUpdate(k)

SpecRace == InitRace /\ [][NextRace]_vars

(* C30: when the other call's config.update falls between a call's own
   update and its grid generation, the grid is generated from the other
   call's overrides, in either direction of the overtaking; the
   configuration of a separate processor is changed by no step of these
   calls and its own update changes nothing of theirs *)
C30_UpdateAndGridNotAtomic ==
    /\ []((/\ grid # NoGrid
           /\ dir = "forward"
           /\ other.n > 0
           /\ other.at = "grid"
           /\ Given(other.kw, "x_points")) =>
             Len(grid.a[1]) = other.kw.x_points.v)
    /\ []((/\ other.n > 0
           /\ other.pc = "done"
           /\ other.at = "overtaken"
           /\ Given(kw, "x_points")) =>
             other.xlen = kw.x_points.v)
    /\ [][/\ params' # params => params2' = params2
          /\ params2' # params2 => (procVars' = procVars /\ other' = other)]_vars

(* C30 witness: a forward call that passed x_points = 3 built a grid of 2
   columns, the x_points of the other call, while the separate processor
   still holds 3 *)
C30_Witness ==
    /\ dir = "forward"
    /\ grid # NoGrid
    /\ kw.x_points = Num(3)
    /\ other.n > 0
    /\ other.at = "grid"
    /\ other.kw.x_points = Num(2)
    /\ Len(grid.a[1]) = 2
    /\ params2.x_points = Num(3)

====
